---- MODULE Spec2Model ----
(***************************************************************************)
(* vNext ledger: the scan-and-ledger reconciliation engine of app.py.      *)
(*                                                                         *)
(* The ledger is the SQLite store (notes, evidence, note_events,           *)
(* file_state, scan_log, scan_state).  POST /scan and PATCH /notes/{slug}  *)
(* are the operations that write it.  Rows of append-only tables are kept  *)
(* as sequences in rowid order; a nullable column holds <<>> for NULL and  *)
(* <<v>> for the value v.                                                  *)
(***************************************************************************)
EXTENDS Integers, Sequences, FiniteSets, TLC

(* ---------------------------------------------------------------------- *)
(* Bounds of the model                                                    *)
(* ---------------------------------------------------------------------- *)
MaxScans == 3
MaxClock == 2
MaxPatches == 1
MaxConcScans == 3
MaxRootScans == 2
MaxEdits == 2
MaxEditScans == 1
NThreads == 2
MaxAppDepth == 11
MaxAuthScans == 1
MaxStartups == 2
MaxCsrfScans == 1
MaxCsrfPatches == 1
MaxMarkers == 2
MaxReports == 3
MaxRaceScans == 2
MaxWalkDepth == 2
MaxRacePatches == 2

Slugs == {"s1", "s2"}
Paths == {"a.py", "b.py"}
PathOrder == <<"a.py", "b.py">>

(* ---------------------------------------------------------------------- *)
(* Program constants                                                      *)
(* ---------------------------------------------------------------------- *)
ACTIVE_STATUSES == {"open", "doing", "parked"}
ALLOWED_STATUS == {"open", "doing", "parked", "done", "stale"}
PRIORITY_RANGE == <<1, 3>>

None == << >>
Some(v) == <<v>>

(* ---------------------------------------------------------------------- *)
(* The file tree under the scan root                                      *)
(* ---------------------------------------------------------------------- *)
(* A line of text is the sequence of tags it holds, in textual order; a   *)
(* file is its lines, its mtime and whether it decodes as UTF-8.          *)
Tag(kind, slug) == [kind |-> kind, slug |-> slug]

File(body, mtime) == <<[body |-> body, mtime |-> mtime, readable |-> TRUE]>>

(* A file whose bytes are not UTF-8 or that the process may not open:     *)
(* body is what its lines would hold if they were read.                   *)
Undecodable(body, mtime) == <<[body |-> body, mtime |-> mtime, readable |-> FALSE]>>

NoFiles == [p \in Paths |-> None]

TreeNote == [NoFiles EXCEPT !["a.py"] = File(<< <<Tag("note", "s1")>> >>, 0)]

TreeNoteDone ==
  [NoFiles EXCEPT !["a.py"] = File(<< <<Tag("note", "s1")>>, <<Tag("done", "s1")>> >>, 0)]

TreeTwoFiles ==
  [NoFiles EXCEPT !["a.py"] = File(<< <<Tag("note", "s1")>> >>, 0),
                  !["b.py"] = File(<< <<Tag("note", "s2"), Tag("note", "s1")>> >>, 0)]

TreeDoneOnly == [NoFiles EXCEPT !["a.py"] = File(<< <<Tag("done", "s1")>> >>, 0)]

TreeSameLine ==
  [NoFiles EXCEPT !["a.py"] = File(<< <<Tag("done", "s1"), Tag("note", "s1")>> >>, 1)]

ScanTrees == {NoFiles, TreeNote, TreeNoteDone, TreeTwoFiles, TreeDoneOnly, TreeSameLine}

TreeUndecodable ==
  [NoFiles EXCEPT !["a.py"] = File(<< <<Tag("note", "s1")>> >>, 0),
                  !["b.py"] = Undecodable(<< <<Tag("note", "s2"), Tag("done", "s1")>> >>, 0)]

TreeDecodable ==
  [NoFiles EXCEPT !["a.py"] = File(<< <<Tag("note", "s1")>> >>, 0),
                  !["b.py"] = File(<< <<Tag("note", "s2"), Tag("done", "s1")>> >>, 1)]

TreeAllUndecodable ==
  [NoFiles EXCEPT !["a.py"] = Undecodable(<< <<Tag("note", "s1")>> >>, 1)]

RECURSIVE SumLens(_)
SumLens(body) ==
  IF body = << >> THEN 0
  ELSE (Len(Head(body)) * 15) + 1 + SumLens(Tail(body))

(* st_size: every tag is 15 bytes of text, every line ends in a newline.  *)
st_size(body) == SumLens(body)

VARIABLES
  db,      \* the committed ledger
  tree,    \* the file tree under the root
  clock,   \* wall clock, in seconds
  pre,     \* the ledger before the last operation
  last,    \* the last operation: its inputs and its response
  npatch,  \* number of PATCH requests served
  conn,    \* per worker thread: the scan it is serving and its connection
  lock,    \* the thread holding SQLite's write lock, 0 when it is free
  _CSP_REPORT_SAMPLING  \* the sampling table of the CSP report endpoint

vars == <<db, tree, clock, pre, last, npatch, conn, lock, _CSP_REPORT_SAMPLING>>

EmptyDb ==
  [ notes |-> << >>,
    evidence |-> << >>,
    note_events |-> << >>,
    file_state |-> [p \in Paths |-> None],
    scan_log |-> << >>,
    last_scan_at |-> None ]

(* ---------------------------------------------------------------------- *)
(* File Walker, Change Detector, Tag Extractor                            *)
(* ---------------------------------------------------------------------- *)
iter_source_files(t) ==
  SelectSeq(PathOrder, LAMBDA p : t[p] # None)

file_hash_key(t, p) ==
  [mtime_ns |-> t[p][1].mtime, size_bytes |-> st_size(t[p][1].body)]

SeqToSet(s) == {s[i] : i \in DOMAIN s}

(* A change detector that reports every file as changed.                  *)
hashdiff_changed_always(d, t, p) == TRUE

(* Change Detector: (files_to_scan, seen_paths) and the file_state rows   *)
(* written on the way.                                                    *)
hashdiff_changed(d, t, p) ==
  LET row == d.file_state[p]
      key == file_hash_key(t, p)
  IN  \/ row = None
      \/ row[1].mtime_ns # key.mtime_ns
      \/ row[1].size_bytes # key.size_bytes

(* A change detector that selects the changed files and stores nothing.  *)
list_files_hashdiff_nowrite(d, t, now) ==
  LET walked == iter_source_files(t)
  IN  [ files |-> SelectSeq(walked, LAMBDA p : hashdiff_changed(d, t, p)),
        seen_paths |-> SeqToSet(walked),
        db |-> d ]

list_files_hashdiff(d, t, now) ==
  LET walked == iter_source_files(t)
      files == SelectSeq(walked, LAMBDA p : hashdiff_changed(d, t, p))
      changed == SeqToSet(files)
  IN  [ files |-> files,
        seen_paths |-> SeqToSet(walked),
        db |-> [d EXCEPT !.file_state =
                  [p \in Paths |->
                     IF p \in changed
                     THEN Some([ mtime_ns |-> file_hash_key(t, p).mtime_ns,
                                 size_bytes |-> file_hash_key(t, p).size_bytes,
                                 last_seen_at |-> now ])
                     ELSE d.file_state[p]]] ]

Hit(kind, slug, path, line, snippet) ==
  [kind |-> kind, slug |-> slug, path |-> path, line |-> line, snippet |-> snippet]

(* One line: every NOTE match first, then every DONE match.               *)
line_hits(p, i, line_text) ==
  LET ns == SelectSeq(line_text, LAMBDA g : g.kind = "note")
      ds == SelectSeq(line_text, LAMBDA g : g.kind = "done")
  IN  [j \in 1..Len(ns) |-> Hit("note", ns[j].slug, p, i, line_text)]
      \o [j \in 1..Len(ds) |-> Hit("done", ds[j].slug, p, i, line_text)]

RECURSIVE text_hits(_, _, _)
text_hits(p, body, i) ==
  IF i > Len(body) THEN << >>
  ELSE line_hits(p, i, body[i]) \o text_hits(p, body, i + 1)

(* p.read_text(encoding="utf-8") inside try: every exception it raises  *)
(* is caught and the loop continues with the next file, so none reaches   *)
(* scan().                                                                *)
read_text_raises_undecodable(f) == ~f.readable

read_text_raises(f) == FALSE

collect_raises(t, files) == \E i \in DOMAIN files : read_text_raises(t[files[i]][1])

RECURSIVE collect_hits_from_files(_, _)
collect_hits_from_files(t, files) ==
  IF files = << >> THEN << >>
  ELSE LET p == Head(files)
           f == t[p][1]
       IN  (IF f.readable THEN text_hits(p, f.body, 1) ELSE << >>)
           \o collect_hits_from_files(t, Tail(files))

(* ---------------------------------------------------------------------- *)
(* Ledger operations                                                      *)
(* ---------------------------------------------------------------------- *)
Event(note_id, event_type, old_value, new_value, changed_at) ==
  [ note_id |-> note_id, event_type |-> event_type, old_value |-> old_value,
    new_value |-> new_value, changed_at |-> changed_at ]

(* An UPDATE that also clears the priority.                               *)
set_status_clear_priority(notes, id, status, now) ==
  [i \in DOMAIN notes |->
     IF notes[i].id = id
     THEN [notes[i] EXCEPT !.status = status, !.updated_at = now, !.priority = None]
     ELSE notes[i]]

(* UPDATE notes SET status = ?, updated_at = ? WHERE id = ?               *)
set_status(notes, id, status, now) ==
  [i \in DOMAIN notes |->
     IF notes[i].id = id
     THEN [notes[i] EXCEPT !.status = status, !.updated_at = now]
     ELSE notes[i]]

(* SELECT id, status FROM notes WHERE slug = ? ... fetchone()             *)
select_note(d, slug) ==
  LET rows == SelectSeq(d.notes, LAMBDA n : n.slug = slug)
  IN  IF rows = << >> THEN None ELSE Some(Head(rows))

(* upsert_note without the revive branch.                                 *)
upsert_note_apply_norevive(d, row, slug, now) ==
  IF row # None
  THEN [db |-> d, note_id |-> row[1].id, revived |-> FALSE, ok |-> TRUE]
  ELSE LET note_id == Len(d.notes) + 1
       IN  [ db |-> [d EXCEPT
                       !.notes = Append(d.notes,
                          [ id |-> note_id, slug |-> slug, status |-> "open",
                            priority |-> None, created_at |-> now, updated_at |-> now ]),
                       !.note_events = Append(d.note_events,
                          Event(note_id, "created", None, Some("open"), now))],
             note_id |-> note_id, revived |-> FALSE, ok |-> TRUE ]

(* upsert_note that also touches updated_at of a note it finds.           *)
upsert_note_apply_touch(d, row, slug, now) ==
  IF row # None
  THEN IF row[1].status = "stale"
       THEN [ db |-> [d EXCEPT
                        !.notes = set_status(d.notes, row[1].id, "open", now),
                        !.note_events = Append(d.note_events,
                           Event(row[1].id, "status_change", Some("stale"), Some("open"), now))],
              note_id |-> row[1].id, revived |-> TRUE, ok |-> TRUE ]
       ELSE [ db |-> [d EXCEPT !.notes = set_status(d.notes, row[1].id, row[1].status, now)],
              note_id |-> row[1].id, revived |-> FALSE, ok |-> TRUE ]
  ELSE LET note_id == Len(d.notes) + 1
       IN  [ db |-> [d EXCEPT
                       !.notes = Append(d.notes,
                          [ id |-> note_id, slug |-> slug, status |-> "open",
                            priority |-> None, created_at |-> now, updated_at |-> now ]),
                       !.note_events = Append(d.note_events,
                          Event(note_id, "created", None, Some("open"), now))],
             note_id |-> note_id, revived |-> FALSE, ok |-> TRUE ]

(* upsert_note that logs and counts the revive without the UPDATE that    *)
(* makes the note open, so that every later hit of the slug revives it    *)
(* again.                                                                 *)
upsert_note_apply_per_hit(d, row, slug, now) ==
  IF row # None
  THEN IF row[1].status = "stale"
       THEN [ db |-> [d EXCEPT
                        !.note_events = Append(d.note_events,
                           Event(row[1].id, "status_change", Some("stale"), Some("open"), now))],
              note_id |-> row[1].id, revived |-> TRUE, ok |-> TRUE ]
       ELSE [db |-> d, note_id |-> row[1].id, revived |-> FALSE, ok |-> TRUE]
  ELSE LET note_id == Len(d.notes) + 1
       IN  [ db |-> [d EXCEPT
                       !.notes = Append(d.notes,
                          [ id |-> note_id, slug |-> slug, status |-> "open",
                            priority |-> None, created_at |-> now, updated_at |-> now ]),
                       !.note_events = Append(d.note_events,
                          Event(note_id, "created", None, Some("open"), now))],
             note_id |-> note_id, revived |-> FALSE, ok |-> TRUE ]

(* The writes of upsert_note, decided on the row its SELECT returned.     *)
(* ok = FALSE is the IntegrityError of the UNIQUE constraint on slug.     *)
upsert_note_apply(d, row, slug, now) ==
  IF row # None
  THEN IF row[1].status = "stale"
       THEN [ db |-> [d EXCEPT
                        !.notes = set_status(d.notes, row[1].id, "open", now),
                        !.note_events = Append(d.note_events,
                           Event(row[1].id, "status_change", Some("stale"), Some("open"), now))],
              note_id |-> row[1].id, revived |-> TRUE, ok |-> TRUE ]
       ELSE [db |-> d, note_id |-> row[1].id, revived |-> FALSE, ok |-> TRUE]
  ELSE IF select_note(d, slug) # None
       THEN [db |-> d, note_id |-> 0, revived |-> FALSE, ok |-> FALSE]
       ELSE LET note_id == Len(d.notes) + 1
            IN  [ db |-> [d EXCEPT
                            !.notes = Append(d.notes,
                               [ id |-> note_id, slug |-> slug, status |-> "open",
                                 priority |-> None, created_at |-> now, updated_at |-> now ]),
                            !.note_events = Append(d.note_events,
                               Event(note_id, "created", None, Some("open"), now))],
                  note_id |-> note_id, revived |-> FALSE, ok |-> TRUE ]

upsert_note(d, slug, now) ==
  upsert_note_apply(d, select_note(d, slug), slug, now)

(* SELECT 1 FROM evidence WHERE note_id = ? AND filepath = ? AND line_no = ? *)
select_evidence(d, note_id, filepath, line_no) ==
  \E i \in DOMAIN d.evidence :
     /\ d.evidence[i].note_id = note_id
     /\ d.evidence[i].filepath = filepath
     /\ d.evidence[i].line_no = line_no

add_evidence_apply(d, exists, note_id, filepath, line_no, snippet, now) ==
  IF exists
  THEN [db |-> d, added |-> FALSE]
  ELSE [ db |-> [d EXCEPT !.evidence = Append(d.evidence,
                   [ note_id |-> note_id, filepath |-> filepath, line_no |-> line_no,
                     snippet |-> snippet, created_at |-> now ])],
         added |-> TRUE ]

(* add_evidence without the duplicate check.                              *)
add_evidence_nodedup(d, note_id, filepath, line_no, snippet, now) ==
  add_evidence_apply(d, FALSE, note_id, filepath, line_no, snippet, now)

(* add_evidence that rewrites the snippet and the time of a row it finds. *)
add_evidence_refresh(d, note_id, filepath, line_no, snippet, now) ==
  IF select_evidence(d, note_id, filepath, line_no)
  THEN [ db |-> [d EXCEPT !.evidence =
                   [i \in DOMAIN d.evidence |->
                      IF /\ d.evidence[i].note_id = note_id
                         /\ d.evidence[i].filepath = filepath
                         /\ d.evidence[i].line_no = line_no
                      THEN [d.evidence[i] EXCEPT !.snippet = snippet, !.created_at = now]
                      ELSE d.evidence[i]]],
         added |-> FALSE ]
  ELSE add_evidence_apply(d, FALSE, note_id, filepath, line_no, snippet, now)

add_evidence(d, note_id, filepath, line_no, snippet, now) ==
  add_evidence_apply(d, select_evidence(d, note_id, filepath, line_no),
                     note_id, filepath, line_no, snippet, now)

(* force_done that completes open notes only.                            *)
RECURSIVE force_done_apply_open_only(_, _, _)
force_done_apply_open_only(d, rows, now) ==
  IF rows = << >> THEN [db |-> d, forced |-> 0]
  ELSE LET row == Head(rows)
           d1 == IF row.status = "open"
                 THEN [d EXCEPT
                         !.notes = set_status(d.notes, row.id, "done", now),
                         !.note_events = Append(d.note_events,
                            Event(row.id, "status_change", Some(row.status), Some("done"), now))]
                 ELSE d
           rest == force_done_apply_open_only(d1, Tail(rows), now)
       IN  [ db |-> rest.db,
             forced |-> rest.forced + (IF row.status = "open" THEN 1 ELSE 0) ]

(* SELECT id, slug, status FROM notes WHERE slug IN (...)                 *)
select_done_rows(d, slugs) ==
  SelectSeq(d.notes, LAMBDA n : n.slug \in slugs)

(* force_done writing 'open' as the old value of its event.               *)
RECURSIVE force_done_apply_old_open(_, _, _)
force_done_apply_old_open(d, rows, now) ==
  IF rows = << >> THEN [db |-> d, forced |-> 0]
  ELSE LET row == Head(rows)
           d1 == IF row.status \in ACTIVE_STATUSES
                 THEN [d EXCEPT
                         !.notes = set_status(d.notes, row.id, "done", now),
                         !.note_events = Append(d.note_events,
                            Event(row.id, "status_change", Some("open"), Some("done"), now))]
                 ELSE d
           rest == force_done_apply_old_open(d1, Tail(rows), now)
       IN  [ db |-> rest.db,
             forced |-> rest.forced + (IF row.status \in ACTIVE_STATUSES THEN 1 ELSE 0) ]

RECURSIVE force_done_apply(_, _, _)
force_done_apply(d, rows, now) ==
  IF rows = << >> THEN [db |-> d, forced |-> 0]
  ELSE LET row == Head(rows)
           d1 == IF row.status \in ACTIVE_STATUSES
                 THEN [d EXCEPT
                         !.notes = set_status(d.notes, row.id, "done", now),
                         !.note_events = Append(d.note_events,
                            Event(row.id, "status_change", Some(row.status), Some("done"), now))]
                 ELSE d
           rest == force_done_apply(d1, Tail(rows), now)
       IN  [ db |-> rest.db,
             forced |-> rest.forced + (IF row.status \in ACTIVE_STATUSES THEN 1 ELSE 0) ]

force_done(d, slugs, now) ==
  IF slugs = {} THEN [db |-> d, forced |-> 0]
  ELSE force_done_apply(d, select_done_rows(d, slugs), now)

(* The stale query with slug IN instead of slug NOT IN.                   *)
select_missing_rows_seen(d, seen_slugs) ==
  SelectSeq(d.notes, LAMBDA n : n.status \in ACTIVE_STATUSES /\ n.slug \in seen_slugs)

(* The stale query without the filter on active statuses.                 *)
select_missing_rows_any_status(d, seen_slugs) ==
  SelectSeq(d.notes, LAMBDA n : n.status # "stale" /\ n.slug \notin seen_slugs)

(* The stale query with status = 'open' instead of the active statuses.   *)
select_missing_rows_open_only(d, seen_slugs) ==
  SelectSeq(d.notes, LAMBDA n : n.status = "open" /\ n.slug \notin seen_slugs)

(* SELECT id, slug, status FROM notes WHERE status IN (active)            *)
(*   AND slug NOT IN (seen_slugs)                                         *)
select_missing_rows(d, seen_slugs) ==
  SelectSeq(d.notes, LAMBDA n : n.status \in ACTIVE_STATUSES /\ n.slug \notin seen_slugs)

(* mark_missing_as_stale writing 'open' as the old value of its event.    *)
RECURSIVE mark_stale_apply_old_open(_, _, _)
mark_stale_apply_old_open(d, rows, now) ==
  IF rows = << >> THEN d
  ELSE LET row == Head(rows)
       IN  mark_stale_apply_old_open(
             [d EXCEPT
                !.notes = set_status(d.notes, row.id, "stale", now),
                !.note_events = Append(d.note_events,
                   Event(row.id, "status_change", Some("open"), Some("stale"), now))],
             Tail(rows), now)

(* mark_missing_as_stale that deletes the missing notes.                  *)
mark_stale_apply_delete(d, rows, now) ==
  [d EXCEPT !.notes = SelectSeq(d.notes,
                        LAMBDA n : \A k \in DOMAIN rows : rows[k].id # n.id)]

RECURSIVE mark_stale_apply(_, _, _)
mark_stale_apply(d, rows, now) ==
  IF rows = << >> THEN d
  ELSE LET row == Head(rows)
       IN  mark_stale_apply(
             [d EXCEPT
                !.notes = set_status(d.notes, row.id, "stale", now),
                !.note_events = Append(d.note_events,
                   Event(row.id, "status_change", Some(row.status), Some("stale"), now))],
             Tail(rows), now)

(* A stale step that does nothing when the scan saw no slug.              *)
mark_missing_as_stale_unless_empty(d, full, seen_slugs, now) ==
  IF ~full \/ seen_slugs = {} THEN [db |-> d, marked |-> 0]
  ELSE LET rows == select_missing_rows(d, seen_slugs)
       IN  [db |-> mark_stale_apply(d, rows, now), marked |-> Len(rows)]

mark_missing_as_stale(d, full, seen_slugs, now) ==
  IF ~full THEN [db |-> d, marked |-> 0]
  ELSE LET rows == select_missing_rows(d, seen_slugs)
       IN  [db |-> mark_stale_apply(d, rows, now), marked |-> Len(rows)]

(* SELECT filepath FROM file_state WHERE filepath NOT IN (seen_paths)     *)
select_orphans(d, seen_paths) ==
  {p \in Paths : d.file_state[p] # None /\ p \notin seen_paths}

cleanup_orphan_apply(d, orphans, seen_paths) ==
  IF orphans = {} THEN d
  ELSE [d EXCEPT !.file_state =
          [p \in Paths |-> IF p \notin seen_paths THEN None ELSE d.file_state[p]]]

(* Orphan cleanup without the guard on an empty set of seen paths.        *)
cleanup_orphan_file_state_unguarded(d, seen_paths) ==
  LET orphans == select_orphans(d, seen_paths)
  IN  [ db |-> cleanup_orphan_apply(d, orphans, seen_paths),
        removed |-> Cardinality(orphans) ]

cleanup_orphan_file_state(d, seen_paths) ==
  IF seen_paths = {} THEN [db |-> d, removed |-> 0]
  ELSE LET orphans == select_orphans(d, seen_paths)
       IN  [ db |-> cleanup_orphan_apply(d, orphans, seen_paths),
             removed |-> Cardinality(orphans) ]

set_last_scan_at(d, now) == [d EXCEPT !.last_scan_at = Some(now)]

(* insert_scan_log with two bind values in each other's place.            *)
insert_scan_log_swapped(d, row) ==
  [d EXCEPT !.scan_log = Append(d.scan_log,
     [row EXCEPT !.stale_marked = row.revived_count, !.revived_count = row.stale_marked])]

insert_scan_log(d, row) == [d EXCEPT !.scan_log = Append(d.scan_log, row)]

(* ---------------------------------------------------------------------- *)
(* Root resolution                                                        *)
(* ---------------------------------------------------------------------- *)
(* The paths a scan can be pointed at.  "repo" is the repository: it      *)
(* holds the marker (.git) and the directory of app.py, and its eligible  *)
(* files are the variable tree.  "other" is an empty directory elsewhere, *)
(* "notes.txt" a regular file, "nodir" a path that does not exist.        *)
RepoRoot == "repo"
APP_DIR == "repo/src"
DEFAULT_REPO_ROOT == "repo"
FsRoot == "/"
Directories == {RepoRoot, APP_DIR, "other", FsRoot}
RegularFiles == {"notes.txt"}
MarkerDirs == {RepoRoot}
AutoDetectLevels == 10

(* A file system as resolve_root sees it: the directories and regular    *)
(* files that exist, the directories that hold a repository marker        *)
(* (.git, pyproject.toml or requirements.txt), the directory of app.py,   *)
(* its parent, and Path.parent on the directories.                        *)
RepoFs ==
  [ app_dir |-> APP_DIR,
    default |-> DEFAULT_REPO_ROOT,
    dirs |-> Directories,
    files |-> RegularFiles,
    markers |-> MarkerDirs,
    parent |-> [p \in Directories |-> IF p = APP_DIR THEN RepoRoot ELSE FsRoot] ]

exists(fs, p) == p \in fs.dirs \cup fs.files

is_dir(fs, p) == p \in fs.dirs

parent(fs, p) == fs.parent[p]

(* for _ in range(10): the first of APP_DIR and its ancestors that holds  *)
(* a repository marker.                                                   *)
RECURSIVE auto_detect(_, _, _)
auto_detect(fs, current, n) ==
  IF n = 0 THEN fs.default
  ELSE IF current \in fs.markers THEN current
  ELSE IF parent(fs, current) = current THEN fs.default
  ELSE auto_detect(fs, parent(fs, current), n - 1)

(* A resolver that asks the environment before the request.               *)
resolve_root_env_first(fs, requested_root, env_root) ==
  IF env_root # None /\ env_root[1] # ""
     /\ exists(fs, env_root[1]) /\ is_dir(fs, env_root[1])
  THEN env_root[1]
  ELSE IF requested_root # None /\ requested_root[1] # ""
          /\ exists(fs, requested_root[1]) /\ is_dir(fs, requested_root[1])
  THEN requested_root[1]
  ELSE auto_detect(fs, fs.app_dir, AutoDetectLevels)

(* An invalid requested or environment root is skipped (with a warning),  *)
(* not reported.                                                          *)
resolve_root(fs, requested_root, env_root) ==
  IF requested_root # None /\ requested_root[1] # ""
     /\ exists(fs, requested_root[1]) /\ is_dir(fs, requested_root[1])
  THEN requested_root[1]
  ELSE IF env_root # None /\ env_root[1] # ""
          /\ exists(fs, env_root[1]) /\ is_dir(fs, env_root[1])
  THEN env_root[1]
  ELSE auto_detect(fs, fs.app_dir, AutoDetectLevels)

(* The eligible files under a root.                                       *)
files_under(root_path, t) == IF root_path = RepoRoot THEN t ELSE NoFiles

(* ---------------------------------------------------------------------- *)
(* POST /scan: the transaction of one scan                                *)
(* ---------------------------------------------------------------------- *)
(* A full scan that stores the fingerprints of the files it walks.       *)
scan_files_full_writes(d, t, full, now) ==
  IF full
  THEN [ files |-> iter_source_files(t),
         seen_paths |-> SeqToSet(iter_source_files(t)),
         db |-> list_files_hashdiff(d, t, now).db ]
  ELSE list_files_hashdiff(d, t, now)

scan_files(d, t, full, now) ==
  IF full
  THEN [ files |-> iter_source_files(t),
         seen_paths |-> SeqToSet(iter_source_files(t)),
         db |-> d ]
  ELSE list_files_hashdiff(d, t, now)

(* The loop over the hits: upsert_note and add_evidence for every hit.    *)
RECURSIVE scan_hits(_, _, _)
scan_hits(st, hits, now) ==
  IF hits = << >> THEN st
  ELSE LET h == Head(hits)
           u == upsert_note(st.db, h.slug, now)
           e == add_evidence(u.db, u.note_id, h.path, h.line, h.snippet, now)
       IN  scan_hits(
             [ db |-> e.db,
               seen_slugs |-> st.seen_slugs \cup {h.slug},
               done_slugs |-> IF h.kind = "done"
                              THEN st.done_slugs \cup {h.slug} ELSE st.done_slugs,
               evidence_added |-> st.evidence_added + (IF e.added THEN 1 ELSE 0),
               revived_count |-> st.revived_count + (IF u.revived THEN 1 ELSE 0) ],
             Tail(hits), now)

scan_start(d) ==
  [ db |-> d, seen_slugs |-> {}, done_slugs |-> {},
    evidence_added |-> 0, revived_count |-> 0 ]

ScanCounters(files, lp, fd, sm, oc) ==
  [ files_scanned |-> Len(files),
    slugs_found |-> Cardinality(lp.seen_slugs),
    evidence_added |-> lp.evidence_added,
    done_forced |-> fd.forced,
    stale_marked |-> sm.marked,
    revived_count |-> lp.revived_count,
    orphan_files_removed |-> oc.removed ]

(* The stale step without the if full: guard of scan.                    *)
scan_stale_unguarded(d, full, seen_slugs, now) ==
  mark_missing_as_stale(d, TRUE, seen_slugs, now)

(* if full: mark_missing_as_stale(...); cleanup_orphan_file_state(...)    *)
scan_stale(d, full, seen_slugs, now) ==
  IF full THEN mark_missing_as_stale(d, TRUE, seen_slugs, now)
  ELSE [db |-> d, marked |-> 0]

scan_orphans(d, full, seen_paths) ==
  IF full THEN cleanup_orphan_file_state(d, seen_paths)
  ELSE [db |-> d, removed |-> 0]

(* stages[k] is the connection's view after the k-th step of the          *)
(* transaction; the last one is what con.commit() makes durable.          *)
scan_tx(d, root_path, t, full, now) ==
  LET fl == scan_files(d, t, full, now)
      hits == collect_hits_from_files(t, fl.files)
      lp == scan_hits(scan_start(fl.db), hits, now)
      fd == force_done(lp.db, lp.done_slugs, now)
      sm == scan_stale(fd.db, full, lp.seen_slugs, now)
      oc == scan_orphans(sm.db, full, fl.seen_paths)
      ls == set_last_scan_at(oc.db, now)
      resp == [scanned_root |-> root_path] @@ ScanCounters(fl.files, lp, fd, sm, oc)
      lg == insert_scan_log(ls, [scanned_at |-> now, full |-> full] @@ resp)
  IN  [ files |-> fl.files,
        seen_paths |-> fl.seen_paths,
        hits |-> hits,
        raised |-> collect_raises(t, fl.files),
        resp |-> resp,
        stages |-> <<fl.db, lp.db, fd.db, sm.db, oc.db, ls, lg>>,
        db |-> lg ]

(* with db() as con: the connection commits when the block ends normally  *)
(* and rolls back when an exception leaves it.                            *)
Commit(committed, working) == working
RollbackKeepsWrites(committed, working) == working
Rollback(committed, working) == committed

NoCounters ==
  [ scanned_root |-> "", files_scanned |-> 0, slugs_found |-> 0, evidence_added |-> 0, done_forced |-> 0,
    stale_marked |-> 0, revived_count |-> 0, orphan_files_removed |-> 0 ]

NoRequest == [fields_set |-> {}, status |-> None, priority |-> None, comment |-> None]

(* The record of a served request: what it was given (root is the root    *)
(* field of a scan request, mode the MODE setting), what it answered      *)
(* (files is the list of files a scan read for tags,                     *)
(* body is the status field of a PATCH response; still is FALSE when     *)
(* the scan found its resolved directory gone), and (repeat) whether      *)
(* it repeats the committed scan served just before it: same full flag,   *)
(* same file tree.                                                        *)
Last(op, code, full, now, hits, seen_paths, resp, slug, req, dirty) ==
  [ op |-> op, code |-> code, full |-> full, now |-> now, hits |-> hits,
    seen_paths |-> seen_paths, resp |-> resp, slug |-> slug, req |-> req,
    dirty |-> dirty, tree |-> tree, root |-> None, mode |-> "local", body |-> None,
    still |-> TRUE, files |-> << >>, env |-> None,
    repeat |-> /\ op = "scan" /\ last.op = "scan" /\ last.code = 200
               /\ last.full = full /\ last.tree = tree ]

Scan(full) ==
  \E r \in {scan_tx(db, RepoRoot, tree, full, clock)} :
    IF r.raised
    THEN /\ db' = Rollback(db, r.stages[1])
         /\ pre' = db
         /\ last' = [Last("scan", 500, full, clock, << >>, r.seen_paths, NoCounters,
                          "", NoRequest, r.stages[1] # db) EXCEPT !.files = r.files]
         /\ UNCHANGED <<_CSP_REPORT_SAMPLING, tree, clock, npatch, conn, lock>>
    ELSE /\ db' = Commit(db, r.db)
         /\ pre' = db
         /\ last' = [Last("scan", 200, full, clock, r.hits, r.seen_paths, r.resp,
                          "", NoRequest, FALSE) EXCEPT !.files = r.files]
         /\ UNCHANGED <<_CSP_REPORT_SAMPLING, tree, clock, npatch, conn, lock>>

(* A storage error raised by the statement that follows step k of the    *)
(* transaction (after j hits of the loop when k = 1): the exception       *)
(* leaves the with block.                                                 *)
ScanFail(full) ==
  \E r \in {scan_tx(db, RepoRoot, tree, full, clock)} :
    \E k \in 0..6 : \E j \in 0..Len(r.hits) :
      /\ (k # 1) => (j = 0)
      /\ (k = 1) => (j < Len(r.hits))
      /\ \E working \in
            { IF k = 0 THEN db
              ELSE IF k = 1
                   THEN scan_hits(scan_start(r.stages[1]), SubSeq(r.hits, 1, j), clock).db
                   ELSE r.stages[k] } :
           /\ db' = Rollback(db, working)
           /\ pre' = db
           /\ last' = Last("scan", 500, full, clock, r.hits, r.seen_paths, NoCounters,
                           "", NoRequest, working # db)
           /\ UNCHANGED <<_CSP_REPORT_SAMPLING, tree, clock, npatch, conn, lock>>

(* scan()'s own look at the resolved directory: still = FALSE when it    *)
(* has been removed since resolve_root returned it.                       *)
invalid_root_never(root_path, still) == FALSE

invalid_root(root_path, still) ==
  ~(still /\ exists(RepoFs, root_path) /\ is_dir(RepoFs, root_path))

(* A root taken from the request in every mode.                           *)
scan_root_open(mode, requested_root, env_root) ==
  resolve_root(RepoFs, requested_root, env_root)

(* root_path = resolve_root(None if s.mode == "prod" else req.root)       *)
scan_root(mode, requested_root, env_root) ==
  resolve_root(RepoFs, IF mode = "prod" THEN None ELSE requested_root, env_root)

(* The answer of POST /scan and the ledger it leaves.                     *)
scan_outcome(d, t, mode, requested_root, env_root, still, full, now) ==
  LET root_path == scan_root(mode, requested_root, env_root)
  IN  IF invalid_root(root_path, still)
      THEN [code |-> 400, root_path |-> root_path, db |-> d]
      ELSE [code |-> 200, root_path |-> root_path,
            db |-> Commit(d, scan_tx(d, root_path, files_under(root_path, t), full, now).db)]

(* POST /scan with a root field in its body, under a MODE and a            *)
(* LEDGER_REPO_ROOT setting.                                              *)
ScanRoot(mode, requested_root, env_root, still, full) ==
  \E root_path \in {scan_root(mode, requested_root, env_root)} :
    IF invalid_root(root_path, still)
    THEN /\ db' = db
         /\ pre' = db
         /\ last' = [Last("scan", 400, full, clock, << >>, {}, NoCounters, "", NoRequest, FALSE)
                       EXCEPT !.root = requested_root, !.mode = mode, !.still = still,
                              !.env = env_root]
         /\ UNCHANGED <<_CSP_REPORT_SAMPLING, tree, clock, npatch, conn, lock>>
    ELSE \E r \in {scan_tx(db, root_path, files_under(root_path, tree), full, clock)} :
           /\ db' = Commit(db, r.db)
           /\ pre' = db
           /\ last' = [Last("scan", 200, full, clock, r.hits, r.seen_paths, r.resp,
                            "", NoRequest, FALSE)
                         EXCEPT !.root = requested_root, !.mode = mode, !.still = still,
                                !.files = r.files, !.env = env_root]
           /\ UNCHANGED <<_CSP_REPORT_SAMPLING, tree, clock, npatch, conn, lock>>

(* ---------------------------------------------------------------------- *)
(* Settings, the startup gate, sessions, CSRF and the gate of /scan       *)
(* ---------------------------------------------------------------------- *)
(* .strip().lower() on the values environment variables are given here.   *)
strip_lower(v) ==
  CASE v = "Prod" -> "prod"
    [] v = " local " -> "local"
    [] v = "No" -> "no"
    [] v = " " -> ""
    [] OTHER -> v

(* .strip() on the same values.                                           *)
strip(v) ==
  CASE v = " local " -> "local"
    [] v = " " -> ""
    [] OTHER -> v

getenv_or(env, name, default) ==
  IF env[name] = None \/ env[name][1] = "" THEN default ELSE env[name][1]

NoSettings ==
  [ mode |-> "", admin_password |-> "", dev_password |-> "", session_secret |-> "",
    allow_local_json_noauth |-> FALSE ]

(* load_settings without the check that refuses the no-auth exception in  *)
(* prod.                                                                  *)
load_settings_allow_in_prod(env) ==
  LET mode == strip_lower(getenv_or(env, "MODE", "local"))
      admin_password == strip(getenv_or(env, "ADMIN_PASSWORD", ""))
      dev_password == strip(getenv_or(env, "DEV_PASSWORD", ""))
      session_secret == strip(getenv_or(env, "SESSION_SECRET", ""))
      allow == strip_lower(getenv_or(env, "ALLOW_LOCAL_JSON_NOAUTH",
                                     IF mode = "local" THEN "1" ELSE "0"))
                 \notin {"0", "false", "no"}
  IN  IF mode \notin {"local", "prod"} THEN [ok |-> FALSE, settings |-> NoSettings]
      ELSE IF mode = "prod" /\ (admin_password = "" \/ session_secret = "")
      THEN [ok |-> FALSE, settings |-> NoSettings]
      ELSE [ ok |-> TRUE,
             settings |->
               [ mode |-> mode, admin_password |-> admin_password,
                 dev_password |-> dev_password,
                 session_secret |-> IF session_secret = "" THEN "ephemeral"
                                    ELSE session_secret,
                 allow_local_json_noauth |-> allow ] ]

(* load_settings: the Settings read from the environment, or a            *)
(* RuntimeError (ok = FALSE).  A local run without SESSION_SECRET draws   *)
(* a fresh random secret, "ephemeral".  The CSP settings are left out.    *)
load_settings(env) ==
  LET mode == strip_lower(getenv_or(env, "MODE", "local"))
      admin_password == strip(getenv_or(env, "ADMIN_PASSWORD", ""))
      dev_password == strip(getenv_or(env, "DEV_PASSWORD", ""))
      session_secret == strip(getenv_or(env, "SESSION_SECRET", ""))
      allow == strip_lower(getenv_or(env, "ALLOW_LOCAL_JSON_NOAUTH",
                                     IF mode = "local" THEN "1" ELSE "0"))
                 \notin {"0", "false", "no"}
  IN  IF mode \notin {"local", "prod"} THEN [ok |-> FALSE, settings |-> NoSettings]
      ELSE IF mode = "prod" /\ allow THEN [ok |-> FALSE, settings |-> NoSettings]
      ELSE IF mode = "prod" /\ (admin_password = "" \/ session_secret = "")
      THEN [ok |-> FALSE, settings |-> NoSettings]
      ELSE [ ok |-> TRUE,
             settings |->
               [ mode |-> mode, admin_password |-> admin_password,
                 dev_password |-> dev_password,
                 session_secret |-> IF session_secret = "" THEN "ephemeral"
                                    ELSE session_secret,
                 allow_local_json_noauth |-> allow ] ]

(* check_p1_contract_gate: TRUE when it returns, FALSE when it raises.    *)
check_p1_contract_gate_open(s, env) == TRUE

check_p1_contract_gate(s, env) ==
  LET verified == strip(getenv_or(env, "P1_CONTRACT_VERIFIED", "")) = "1"
  IN  IF s.mode = "prod" THEN verified ELSE TRUE

(* lifespan: init_settings(), check_p1_contract_gate(), init_db(), one    *)
(* step each.  last holds the process: the environment it was started     *)
(* in, where it stands (pc), the settings once loaded, the number of      *)
(* starts so far; db is the database file, None while there is no file.   *)
Process(env, pc, settings, starts) ==
  [op |-> "lifespan", env |-> env, pc |-> pc, settings |-> settings, starts |-> starts]

init_settings ==
  /\ last.op = "lifespan" /\ last.pc = "init_settings"
  /\ last' = IF load_settings(last.env).ok
             THEN [last EXCEPT !.pc = "check_p1_contract_gate",
                               !.settings = load_settings(last.env).settings]
             ELSE [last EXCEPT !.pc = "failed"]
  /\ UNCHANGED <<_CSP_REPORT_SAMPLING, db, tree, clock, pre, npatch, conn, lock>>

contract_gate ==
  /\ last.op = "lifespan" /\ last.pc = "check_p1_contract_gate"
  /\ last' = IF check_p1_contract_gate(last.settings, last.env)
             THEN [last EXCEPT !.pc = "init_db"]
             ELSE [last EXCEPT !.pc = "failed"]
  /\ UNCHANGED <<_CSP_REPORT_SAMPLING, db, tree, clock, pre, npatch, conn, lock>>

(* init_db: CREATE TABLE IF NOT EXISTS on the file at DB_PATH, which      *)
(* sqlite3.connect creates when it is missing.                            *)
init_db ==
  /\ last.op = "lifespan" /\ last.pc = "init_db"
  /\ db' = IF db = None THEN EmptyDb ELSE db
  /\ last' = [last EXCEPT !.pc = "serving"]
  /\ UNCHANGED <<_CSP_REPORT_SAMPLING, tree, clock, pre, npatch, conn, lock>>

(* The process ends and the application is started again in another       *)
(* environment; the database file stays as it is.                         *)
Restart(env) ==
  /\ last.op = "lifespan" /\ last.pc \in {"serving", "failed"}
  /\ last' = Process(env, "init_settings", NoSettings, last.starts + 1)
  /\ pre' = db
  /\ UNCHANGED <<_CSP_REPORT_SAMPLING, db, tree, clock, npatch, conn, lock>>

(* A session token is its payload and the HMAC of the payload under a     *)
(* key; the HMAC is modelled as the pair it was computed from.            *)
_sign_session(key, payload) == [body |-> payload, sig |-> <<key, payload>>]

_verify_session_unsigned(s, token) == Some(token.body)

_verify_session(s, token) ==
  IF token.sig = <<s.session_secret, token.body>> THEN Some(token.body) ELSE None

_current_session(s, request) ==
  IF request.session = None THEN None ELSE _verify_session(s, request.session[1])

(* The connecting address is a trusted proxy (TRUSTED_PROXY_CIDRS at its  *)
(* default, 127.0.0.1/32 and ::1/128).                                    *)
_is_trusted_proxy(request) ==
  \/ request.client_host \in {"testclient", "testserver"}
  \/ request.client_host \in {"127.0.0.1", "::1"}

_xff_leftmost(request) == request.xff

(* A local client; a client that is not local still counts as local      *)
(* when the Host header it sent names localhost.                          *)
_is_local_host(request) ==
  IF request.client_host \in {"127.0.0.1", "::1", "testclient", "testserver"}
  THEN ~( /\ _is_trusted_proxy(request)
          /\ _xff_leftmost(request) # ""
          /\ _xff_leftmost(request) \notin {"127.0.0.1", "::1", "localhost"} )
  ELSE request.host \in {"127.0.0.1", "localhost"}

_should_autologin_localhost(s, request) ==
  s.mode = "local" /\ s.dev_password = "" /\ _is_local_host(request)

_autologin_local(s, request) ==
  IF _should_autologin_localhost(s, request) THEN Some([role |-> "dev"]) ELSE None

(* Accept and Content-Type are the sets of media types they name.         *)
_wants_json(request) ==
  "application/json" \in request.accept \/ "application/json" \in request.content_type

(* 0 when the role is allowed, the status of the HTTPException otherwise. *)
_ensure_role(s, request, allowed) ==
  LET session == IF _current_session(s, request) # None
                 THEN _current_session(s, request)
                 ELSE _autologin_local(s, request)
  IN  IF session = None THEN 401
      ELSE IF session[1].role \notin allowed THEN 403
      ELSE 0

_verify_csrf_never(request) == 0

_verify_csrf_if_cookie_present(request) ==
  IF request.csrf_cookie = None \/ request.csrf_cookie[1] = "" THEN 0
  ELSE IF request.csrf_header = None \/ request.csrf_header[1] = ""
          \/ request.csrf_header[1] # request.csrf_cookie[1]
  THEN 403
  ELSE 0

_no_auth_json_exception(s) == s.mode = "local" /\ s.allow_local_json_noauth

(* The middleware in front of POST /scan: the local JSON exception looks  *)
(* at Accept only, and without it a signed session is required            *)
(* (no auto-login).                                                       *)
auth_gate_autologin(s, request) ==
  IF /\ _no_auth_json_exception(s) /\ _is_local_host(request)
     /\ "application/json" \in request.accept
  THEN 0
  ELSE _ensure_role(s, request, {"admin", "dev"})

auth_gate(s, request) ==
  IF /\ _no_auth_json_exception(s) /\ _is_local_host(request)
     /\ "application/json" \in request.accept
  THEN 0
  ELSE IF _current_session(s, request) = None THEN 401
  ELSE IF _current_session(s, request)[1].role \notin {"admin", "dev"} THEN 403
  ELSE 0

(* What a handler does before its own work: the CSRF check, then the      *)
(* role check unless the local JSON exception applies.                    *)
handler_access(s, request) ==
  IF _verify_csrf_if_cookie_present(request) # 0
  THEN _verify_csrf_if_cookie_present(request)
  ELSE IF ~(_no_auth_json_exception(s) /\ _is_local_host(request) /\ _wants_json(request))
  THEN _ensure_role(s, request, {"admin", "dev"})
  ELSE 0

(* POST /scan as a client sends it to an application started with         *)
(* settings s: the gate, the handler's checks, the scan.                  *)
ScanRequest(s, request, full) ==
  \E code \in {IF auth_gate(s, request) # 0 THEN auth_gate(s, request)
               ELSE handler_access(s, request)} :
    IF code # 0
    THEN /\ db' = db
         /\ pre' = db
         /\ last' = [settings |-> s, request |-> request]
                      @@ Last("scan", code, full, clock, << >>, {}, NoCounters,
                              "", NoRequest, FALSE)
         /\ UNCHANGED <<_CSP_REPORT_SAMPLING, tree, clock, npatch, conn, lock>>
    ELSE \E r \in {scan_tx(db, RepoRoot, tree, full, clock)} :
           /\ db' = Commit(db, r.db)
           /\ pre' = db
           /\ last' = [settings |-> s, request |-> request]
                        @@ [Last("scan", 200, full, clock, r.hits, r.seen_paths, r.resp,
                                 "", NoRequest, FALSE) EXCEPT !.files = r.files]
           /\ UNCHANGED <<_CSP_REPORT_SAMPLING, tree, clock, npatch, conn, lock>>

(* ---------------------------------------------------------------------- *)
(* PATCH /notes/{slug}                                                    *)
(* ---------------------------------------------------------------------- *)
str(n) == CASE n = 1 -> "1" [] n = 2 -> "2" [] n = 3 -> "3" [] OTHER -> "?"

priority_text(pr) == IF pr = None THEN None ELSE Some(str(pr[1]))

(* The row's status, whatever the request asks.                           *)
patch_status_kept(row, req) == row.status

(* The values update_note would store: the request's where a field is     *)
(* provided, the row's otherwise.                                         *)
patch_status(row, req) ==
  IF "status" \in req.fields_set THEN req.status[1] ELSE row.status

patch_priority(row, req) ==
  IF "priority" \in req.fields_set THEN req.priority ELSE row.priority

(* A validation that rejects nothing.                                     *)
patch_invalid_never(req) == FALSE

(* A validation of the status only.                                       *)
patch_invalid_status_only(req) ==
  "status" \in req.fields_set /\ req.status[1] \notin ALLOWED_STATUS

(* if req.status not in ALLOWED_STATUS: 400; if req.priority is not None  *)
(* and outside PRIORITY_RANGE: 400.                                       *)
patch_invalid(req) ==
  \/ "status" \in req.fields_set /\ req.status[1] \notin ALLOWED_STATUS
  \/ /\ "priority" \in req.fields_set
     /\ req.priority # None
     /\ (req.priority[1] < PRIORITY_RANGE[1] \/ req.priority[1] > PRIORITY_RANGE[2])

(* A change detection that finds a change in every request.               *)
patch_changed_always(row, req) == TRUE

(* changed: a status or priority that differs from the row's, or a        *)
(* comment.                                                               *)
patch_changed(row, req) ==
  \/ patch_status(row, req) # row.status
  \/ patch_priority(row, req) # row.priority
  \/ ("comment" \in req.fields_set /\ req.comment # None)

(* SELECT id, status, priority FROM notes WHERE slug = ?                  *)
(* The writes of update_note, decided on the row its SELECT returned.     *)
update_note_apply(d, row, req, now) ==
  LET comment_provided == "comment" \in req.fields_set
      old_status == row.status
      old_priority == row.priority
      new_status == patch_status(row, req)
      new_priority == patch_priority(row, req)
      e1 == IF new_status # old_status
            THEN <<Event(row.id, "status_change", Some(old_status), Some(new_status), now)>>
            ELSE << >>
      e2 == IF new_priority # old_priority
            THEN <<Event(row.id, "priority_change", priority_text(old_priority),
                         priority_text(new_priority), now)>>
            ELSE << >>
      e3 == IF comment_provided /\ req.comment # None
            THEN <<Event(row.id, "comment", None, req.comment, now)>>
            ELSE << >>
  IN  IF patch_invalid(req)
      THEN [code |-> 400, db |-> d]
      ELSE IF ~patch_changed(row, req)
      THEN [code |-> 204, db |-> d]
      ELSE [ code |-> 200,
             db |-> [d EXCEPT
                       !.notes = [i \in DOMAIN d.notes |->
                                    IF d.notes[i].id = row.id
                                    THEN [d.notes[i] EXCEPT !.status = new_status,
                                                            !.priority = new_priority,
                                                            !.updated_at = now]
                                    ELSE d.notes[i]],
                       !.note_events = d.note_events \o e1 \o e2 \o e3] ]

update_note(d, slug, req, now) ==
  IF req.fields_set = {} THEN [code |-> 204, db |-> d]
  ELSE IF "status" \in req.fields_set /\ req.status = None THEN [code |-> 400, db |-> d]
  ELSE IF "comment" \in req.fields_set /\ req.comment = None THEN [code |-> 400, db |-> d]
  ELSE LET note_row == select_note(d, slug)
       IN  IF note_row = None THEN [code |-> 404, db |-> d]
           ELSE update_note_apply(d, note_row[1], req, now)

Patch(slug, req) ==
  \E r \in {update_note(db, slug, req, clock)} :
    /\ db' = (IF r.code = 200 \/ r.code = 204 THEN Commit(db, r.db) ELSE Rollback(db, r.db))
    /\ pre' = db
    /\ last' = [Last("patch", r.code, FALSE, clock, << >>, {}, NoCounters, slug, req, FALSE)
                  EXCEPT !.body = IF r.code = 200
                                  THEN Some(select_note(r.db, slug)[1].status)
                                  ELSE None]
    /\ npatch' = npatch + 1
    /\ UNCHANGED <<_CSP_REPORT_SAMPLING, tree, clock, conn, lock>>

(* PATCH /notes/{slug} as a client sends it to an application started    *)
(* with settings s: the handler's checks, then the edit.                  *)
PatchRequest(s, request, slug, req) ==
  \E code \in {handler_access(s, request)} :
    IF code # 0
    THEN /\ db' = db
         /\ pre' = db
         /\ last' = [settings |-> s, request |-> request]
                      @@ Last("patch", code, FALSE, clock, << >>, {}, NoCounters,
                              slug, req, FALSE)
         /\ npatch' = npatch + 1
         /\ UNCHANGED <<_CSP_REPORT_SAMPLING, tree, clock, conn, lock>>
    ELSE \E r \in {update_note(db, slug, req, clock)} :
           /\ db' = (IF r.code = 200 \/ r.code = 204 THEN Commit(db, r.db)
                                                    ELSE Rollback(db, r.db))
           /\ pre' = db
           /\ last' = [settings |-> s, request |-> request]
                        @@ [Last("patch", r.code, FALSE, clock, << >>, {}, NoCounters,
                                 slug, req, FALSE)
                              EXCEPT !.body = IF r.code = 200
                                              THEN Some(select_note(r.db, slug)[1].status)
                                              ELSE None]
           /\ npatch' = npatch + 1
           /\ UNCHANGED <<_CSP_REPORT_SAMPLING, tree, clock, conn, lock>>

Request(fields_set, status, priority, comment) ==
  [fields_set |-> fields_set, status |-> status, priority |-> priority, comment |-> comment]

EditRequests ==
  { Request({}, None, None, None),
    Request({"status"}, Some("doing"), None, None),
    Request({"status"}, Some("parked"), None, None),
    Request({"status"}, Some("stale"), None, None),
    Request({"priority"}, None, Some(2), None) }

(* ---------------------------------------------------------------------- *)
(* Concurrent requests: FastAPI serves each sync handler on a worker      *)
(* thread with a connection of its own.  sqlite3 opens the transaction    *)
(* implicitly before the first INSERT/UPDATE/DELETE of the connection, so *)
(* a SELECT issued earlier reads the committed ledger outside any         *)
(* transaction; the first write takes the write lock of the database,     *)
(* which is held until commit or rollback.                                *)
(* ---------------------------------------------------------------------- *)
Threads == 1..NThreads

IdleConn ==
  [ pc |-> "idle", full |-> FALSE, now |-> 0, walked |-> << >>, files |-> << >>,
    seen_paths |-> {}, batch |-> << >>, hits |-> << >>, seen_slugs |-> {}, done_slugs |-> {},
    resp |-> NoCounters, sel |-> None, note_id |-> 0, intx |-> FALSE, work |-> None,
    slug |-> "", req |-> NoRequest ]

(* What a statement of thread p reads and writes.                         *)
View(p) == IF conn[p].intx THEN conn[p].work[1] ELSE db

CanWrite(p) == lock = 0 \/ lock = p

(* Thread p moves to pc with its locals changed as in c, having written   *)
(* the ledger w under the write lock.                                     *)
Written(p, c, w) ==
  /\ CanWrite(p)
  /\ conn' = [conn EXCEPT ![p] = [c EXCEPT !.intx = TRUE, !.work = Some(w)]]
  /\ lock' = p
  /\ UNCHANGED <<_CSP_REPORT_SAMPLING, db, tree, clock, pre, last, npatch>>

(* Thread p moves on without writing.                                     *)
Stepped(p, c) ==
  /\ conn' = [conn EXCEPT ![p] = c]
  /\ UNCHANGED <<_CSP_REPORT_SAMPLING, db, tree, clock, pre, last, npatch, lock>>

ActiveScans == Cardinality({p \in Threads : conn[p].pc # "idle"})

(* scan() up to the walk: a full scan lists and reads the files, a diff   *)
(* scan enters the loop of list_files_hashdiff.                           *)
CBegin(p, full) ==
  /\ conn[p].pc = "idle"
  /\ Len(db.scan_log) + ActiveScans < MaxConcScans
  /\ LET walked == iter_source_files(tree)
     IN  Stepped(p,
           IF full
           THEN [IdleConn EXCEPT !.pc = "hit", !.full = TRUE, !.now = clock,
                                 !.files = walked, !.seen_paths = SeqToSet(walked),
                                 !.batch = collect_hits_from_files(tree, walked),
                                 !.hits = collect_hits_from_files(tree, walked)]
           ELSE [IdleConn EXCEPT !.pc = "file_r", !.now = clock, !.walked = walked])

(* list_files_hashdiff: the SELECT of the next file, or the end of the    *)
(* loop and collect_hits_from_files.                                      *)
CFileSelect(p) ==
  LET c == conn[p]
  IN  /\ c.pc = "file_r"
      /\ IF c.walked = << >>
         THEN Stepped(p, [c EXCEPT !.pc = "hit",
                                   !.batch = collect_hits_from_files(tree, c.files),
                                   !.hits = collect_hits_from_files(tree, c.files)])
         ELSE IF hashdiff_changed(View(p), tree, Head(c.walked))
         THEN Stepped(p, [c EXCEPT !.pc = "file_w",
                                   !.seen_paths = c.seen_paths \cup {Head(c.walked)}])
         ELSE Stepped(p, [c EXCEPT !.walked = Tail(c.walked),
                                   !.seen_paths = c.seen_paths \cup {Head(c.walked)}])

(* list_files_hashdiff: INSERT OR REPLACE INTO file_state                 *)
CFileWrite(p) ==
  LET c == conn[p]
      f == Head(c.walked)
      key == file_hash_key(tree, f)
  IN  /\ c.pc = "file_w"
      /\ Written(p,
           [c EXCEPT !.pc = "file_r", !.walked = Tail(c.walked), !.files = Append(c.files, f)],
           [View(p) EXCEPT !.file_state[f] =
              Some([mtime_ns |-> key.mtime_ns, size_bytes |-> key.size_bytes,
                    last_seen_at |-> c.now])])

(* The hit loop: seen_slugs, done_slugs and the SELECT of upsert_note.    *)
CUpsertSelect(p) ==
  LET c == conn[p]
  IN  /\ c.pc = "hit"
      /\ IF c.hits = << >>
         THEN Stepped(p, [c EXCEPT !.pc = "force_r"])
         ELSE LET h == Head(c.hits)
                  row == select_note(View(p), h.slug)
                  c1 == [c EXCEPT !.seen_slugs = c.seen_slugs \cup {h.slug},
                                  !.done_slugs = IF h.kind = "done"
                                                 THEN c.done_slugs \cup {h.slug}
                                                 ELSE c.done_slugs,
                                  !.sel = row]
              IN  IF row # None /\ row[1].status # "stale"
                  THEN Stepped(p, [c1 EXCEPT !.pc = "evidence_r", !.note_id = row[1].id])
                  ELSE Stepped(p, [c1 EXCEPT !.pc = "upsert_w"])

Rolledback(p, code) ==
  /\ conn' = [conn EXCEPT ![p] = IdleConn]
  /\ lock' = (IF lock = p THEN 0 ELSE lock)
  /\ db' = Rollback(db, View(p))
  /\ pre' = db
  /\ last' = Last("scan", code, conn[p].full, conn[p].now, conn[p].batch, conn[p].seen_paths,
                  NoCounters, "", NoRequest, conn[p].intx)
  /\ UNCHANGED <<_CSP_REPORT_SAMPLING, tree, clock, npatch>>

(* upsert_note: the UPDATE or INSERT and its event; the INSERT fails on   *)
(* the UNIQUE constraint when the slug has been inserted meanwhile.       *)
CUpsertWrite(p) ==
  LET c == conn[p]
      r == upsert_note_apply(View(p), c.sel, Head(c.hits).slug, c.now)
  IN  /\ c.pc = "upsert_w"
      /\ CanWrite(p)
      /\ IF r.ok
         THEN Written(p,
                [c EXCEPT !.pc = "evidence_r", !.note_id = r.note_id,
                          !.resp.revived_count = @ + (IF r.revived THEN 1 ELSE 0)],
                r.db)
         ELSE Rolledback(p, 500)

(* add_evidence: the SELECT                                               *)
CEvidenceSelect(p) ==
  LET c == conn[p]
      h == Head(c.hits)
  IN  /\ c.pc = "evidence_r"
      /\ IF select_evidence(View(p), c.note_id, h.path, h.line)
         THEN Stepped(p, [c EXCEPT !.pc = "hit", !.hits = Tail(c.hits)])
         ELSE Stepped(p, [c EXCEPT !.pc = "evidence_w"])

(* add_evidence: the INSERT                                               *)
CEvidenceWrite(p) ==
  LET c == conn[p]
      h == Head(c.hits)
  IN  /\ c.pc = "evidence_w"
      /\ Written(p,
           [c EXCEPT !.pc = "hit", !.hits = Tail(c.hits),
                     !.resp.evidence_added = @ + 1],
           add_evidence_apply(View(p), FALSE, c.note_id, h.path, h.line, h.snippet, c.now).db)

(* force_done: the SELECT                                                 *)
CForceSelect(p) ==
  LET c == conn[p]
      rows == IF c.done_slugs = {} THEN << >> ELSE select_done_rows(View(p), c.done_slugs)
  IN  /\ c.pc = "force_r"
      /\ IF \E i \in DOMAIN rows : rows[i].status \in ACTIVE_STATUSES
         THEN Stepped(p, [c EXCEPT !.pc = "force_w", !.sel = rows])
         ELSE Stepped(p, [c EXCEPT !.pc = "stale_r"])

(* force_done: the UPDATEs and their events                               *)
CForceWrite(p) ==
  LET c == conn[p]
      r == force_done_apply(View(p), c.sel, c.now)
  IN  /\ c.pc = "force_w"
      /\ Written(p, [c EXCEPT !.pc = "stale_r", !.sel = None, !.resp.done_forced = r.forced],
                 r.db)

(* mark_missing_as_stale: the SELECT (full scans only)                    *)
CStaleSelect(p) ==
  LET c == conn[p]
      rows == select_missing_rows(View(p), c.seen_slugs)
  IN  /\ c.pc = "stale_r"
      /\ IF ~c.full THEN Stepped(p, [c EXCEPT !.pc = "finish"])
         ELSE IF rows = << >> THEN Stepped(p, [c EXCEPT !.pc = "orphan_r"])
         ELSE Stepped(p, [c EXCEPT !.pc = "stale_w", !.sel = rows])

(* mark_missing_as_stale: the UPDATEs and their events                    *)
CStaleWrite(p) ==
  LET c == conn[p]
  IN  /\ c.pc = "stale_w"
      /\ Written(p, [c EXCEPT !.pc = "orphan_r", !.sel = None,
                              !.resp.stale_marked = Len(c.sel)],
                 mark_stale_apply(View(p), c.sel, c.now))

(* cleanup_orphan_file_state: the SELECT                                  *)
COrphanSelect(p) ==
  LET c == conn[p]
      orphans == select_orphans(View(p), c.seen_paths)
  IN  /\ c.pc = "orphan_r"
      /\ IF c.seen_paths = {} \/ orphans = {}
         THEN Stepped(p, [c EXCEPT !.pc = "finish"])
         ELSE Stepped(p, [c EXCEPT !.pc = "orphan_w", !.sel = orphans])

(* cleanup_orphan_file_state: the DELETE                                  *)
COrphanWrite(p) ==
  LET c == conn[p]
  IN  /\ c.pc = "orphan_w"
      /\ Written(p, [c EXCEPT !.pc = "finish", !.sel = None,
                              !.resp.orphan_files_removed = Cardinality(c.sel)],
                 cleanup_orphan_apply(View(p), c.sel, c.seen_paths))

(* set_last_scan_at and insert_scan_log                                   *)
CFinish(p) ==
  LET c == conn[p]
      resp == [c.resp EXCEPT !.scanned_root = RepoRoot,
                             !.files_scanned = Len(c.files),
                             !.slugs_found = Cardinality(c.seen_slugs)]
  IN  /\ c.pc = "finish"
      /\ Written(p, [c EXCEPT !.pc = "commit", !.resp = resp],
                 insert_scan_log(set_last_scan_at(View(p), c.now),
                                 [scanned_at |-> c.now, full |-> c.full] @@ resp))

(* A commit that never returns.                                           *)
CCommit_never(p) ==
  /\ conn[p].pc = "commit"
  /\ FALSE
  /\ UNCHANGED vars

(* con.commit()                                                           *)
CCommit(p) ==
  LET c == conn[p]
  IN  /\ c.pc = "commit"
      /\ db' = Commit(db, c.work[1])
      /\ pre' = db
      /\ last' = Last("scan", 200, c.full, c.now, c.batch, c.seen_paths, c.resp,
                      "", NoRequest, FALSE)
      /\ conn' = [conn EXCEPT ![p] = IdleConn]
      /\ lock' = 0
      /\ UNCHANGED <<_CSP_REPORT_SAMPLING, tree, clock, npatch>>

(* A write that waited for the write lock longer than the connection's    *)
(* busy timeout raises "database is locked".                              *)
CLockTimeout(p) ==
  /\ conn[p].pc \in {"file_w", "upsert_w", "evidence_w", "force_w", "stale_w", "orphan_w", "finish"}
  /\ ~CanWrite(p)
  /\ Rolledback(p, 500)

AllIdle == \A p \in Threads : conn[p].pc = "idle"

(* PATCH /notes/{slug} served by worker thread p, statement by statement. *)
(* update_note up to its SELECT: the requests it answers without reading  *)
(* the note, the 404 of an unknown slug, or the row it goes on with.      *)
PSelect(p, slug, req) ==
  /\ conn[p].pc = "idle"
  /\ \E r \in {update_note(db, slug, req, clock)} :
       IF \/ req.fields_set = {}
          \/ "status" \in req.fields_set /\ req.status = None
          \/ "comment" \in req.fields_set /\ req.comment = None
          \/ select_note(db, slug) = None
       THEN /\ db' = Rollback(db, r.db)
            /\ pre' = db
            /\ last' = [row |-> None]
                         @@ Last("patch", r.code, FALSE, clock, << >>, {}, NoCounters,
                                 slug, req, FALSE)
            /\ npatch' = npatch + 1
            /\ UNCHANGED <<_CSP_REPORT_SAMPLING, tree, clock, conn, lock>>
       ELSE /\ conn' = [conn EXCEPT ![p] =
                          [IdleConn EXCEPT !.pc = "patch_w", !.now = clock,
                                           !.sel = select_note(db, slug),
                                           !.slug = slug, !.req = req]]
            /\ npatch' = npatch + 1
            /\ UNCHANGED <<_CSP_REPORT_SAMPLING, db, tree, clock, pre, last, lock>>

(* update_note from its validation to con.commit(): the UPDATE and the    *)
(* INSERTs, computed from the row that PSelect read and written to the    *)
(* ledger as it is now.                                                   *)
PWrite(p) ==
  LET c == conn[p]
  IN  /\ c.pc = "patch_w"
      /\ CanWrite(p)
      /\ \E r \in {update_note_apply(db, c.sel[1], c.req, c.now)} :
           /\ db' = (IF r.code = 200 \/ r.code = 204 THEN Commit(db, r.db)
                                                    ELSE Rollback(db, r.db))
           /\ pre' = db
           /\ last' = [row |-> c.sel]
                        @@ [Last("patch", r.code, FALSE, c.now, << >>, {}, NoCounters,
                                 c.slug, c.req, FALSE)
                              EXCEPT !.body = IF r.code = 200
                                              THEN Some(select_note(r.db, c.slug)[1].status)
                                              ELSE None]
      /\ conn' = [conn EXCEPT ![p] = IdleConn]
      /\ UNCHANGED <<_CSP_REPORT_SAMPLING, tree, clock, npatch, lock>>

(* ---------------------------------------------------------------------- *)
(* Time passes and the file tree changes between requests                 *)
(* ---------------------------------------------------------------------- *)
Tick ==
  /\ clock < MaxClock
  /\ clock' = clock + 1
  /\ UNCHANGED <<_CSP_REPORT_SAMPLING, db, tree, pre, last, npatch, conn, lock>>

ChangeTree(t) ==
  /\ tree # t
  /\ tree' = t
  /\ UNCHANGED <<_CSP_REPORT_SAMPLING, db, clock, pre, last, npatch, conn, lock>>

Init ==
  /\ db = EmptyDb
  /\ tree = NoFiles
  /\ clock = 1
  /\ pre = EmptyDb
  /\ last = [ op |-> "init", code |-> 0, full |-> FALSE, now |-> 1, hits |-> << >>,
              seen_paths |-> {}, resp |-> NoCounters, slug |-> "", req |-> NoRequest,
              dirty |-> FALSE, tree |-> NoFiles, root |-> None, mode |-> "local",
              body |-> None, still |-> TRUE, files |-> << >>, env |-> None,
              repeat |-> FALSE ]
  /\ npatch = 0
  /\ conn = [p \in Threads |-> IdleConn]
  /\ lock = 0
  /\ _CSP_REPORT_SAMPLING = << >>

ScanStep == \E full \in BOOLEAN : Len(db.scan_log) < MaxScans /\ Scan(full)

Next ==
  \/ ScanStep
  \/ Tick
  \/ \E t \in ScanTrees : ChangeTree(t)

Spec == Init /\ [][Next]_vars

(* Scans with storage errors.                                             *)
FailTrees == {NoFiles, TreeNoteDone, TreeTwoFiles}

ScanFailStep == \E full \in BOOLEAN : ScanFail(full)

NextFail ==
  \/ ScanStep
  \/ ScanFailStep
  \/ Tick
  \/ \E t \in FailTrees : ChangeTree(t)

SpecFail == Init /\ [][NextFail]_vars

(* Scans of trees in which a file cannot be read as UTF-8 text.           *)
UndecodableTrees == {TreeNote, TreeUndecodable, TreeDecodable, TreeAllUndecodable}

NextUndecodable ==
  \/ ScanStep
  \/ Tick
  \/ \E t \in UndecodableTrees : ChangeTree(t)

SpecUndecodable == Init /\ [][NextUndecodable]_vars

(* POST /scan from clients of every kind to applications started under    *)
(* every environment that passes load_settings and the startup gate.      *)
AuthEnvs ==
  [ MODE : {None, Some("Prod")},
    ALLOW_LOCAL_JSON_NOAUTH : {None, Some("0"), Some("1")},
    ADMIN_PASSWORD : {Some("adminpw")},
    DEV_PASSWORD : {None, Some("devpw")},
    SESSION_SECRET : {Some("k")},
    P1_CONTRACT_VERIFIED : {Some("1")} ]

Started(envs) ==
  { load_settings(e).settings :
      e \in {x \in envs : /\ load_settings(x).ok
                           /\ check_p1_contract_gate(load_settings(x).settings, x)} }

AuthSettings == Started(AuthEnvs)

(* Session cookies: none, signed by the server for admin, dev and a role  *)
(* that is neither, and one signed with a key that is not the server's.   *)
Sessions ==
  { None,
    Some(_sign_session("k", [role |-> "admin"])),
    Some(_sign_session("k", [role |-> "dev"])),
    Some(_sign_session("k", [role |-> "viewer"])),
    Some(_sign_session("x", [role |-> "admin"])) }

(* The connecting address, X-Forwarded-For and Host of a request: from    *)
(* the machine itself, through a local proxy for a remote client, from    *)
(* a remote machine, from a remote machine that names localhost in Host.  *)
Clients ==
  { [client_host |-> "127.0.0.1", xff |-> "", host |-> "localhost"],
    [client_host |-> "127.0.0.1", xff |-> "8.8.8.8", host |-> "localhost"],
    [client_host |-> "10.0.0.5", xff |-> "", host |-> "example.com"],
    [client_host |-> "10.0.0.5", xff |-> "", host |-> "localhost"] }

(* Accept and Content-Type: a script asking for JSON, a browser form      *)
(* posting JSON, a client that names no Accept with and without a JSON    *)
(* body.                                                                  *)
MediaTypes ==
  { [accept |-> {"application/json"}, content_type |-> {"application/json"}],
    [accept |-> {"text/html"}, content_type |-> {"application/json"}],
    [accept |-> {}, content_type |-> {"application/json"}],
    [accept |-> {}, content_type |-> {}] }

HttpRequest(session, client, media, csrf_cookie, csrf_header) ==
  [ session |-> session, client_host |-> client.client_host, xff |-> client.xff,
    host |-> client.host, accept |-> media.accept, content_type |-> media.content_type,
    csrf_cookie |-> csrf_cookie, csrf_header |-> csrf_header ]

AuthRequests ==
  { HttpRequest(session, client, media, None, None) :
      session \in Sessions, client \in Clients, media \in MediaTypes }

AuthTrees == {NoFiles, TreeNote}

AuthScanStep ==
  \E s \in AuthSettings : \E request \in AuthRequests :
    Len(db.scan_log) < MaxAuthScans /\ ScanRequest(s, request, TRUE)

NextAuth ==
  \/ AuthScanStep
  \/ \E t \in AuthTrees : ChangeTree(t)

SpecAuth == Init /\ [][NextAuth]_vars

(* Startup under every environment, on a machine without a database      *)
(* file at first.                                                         *)
StartupEnvs ==
  [ MODE : {None, Some(" local "), Some("Prod"), Some("staging")},
    ALLOW_LOCAL_JSON_NOAUTH : {None, Some("No"), Some("1")},
    ADMIN_PASSWORD : {None, Some("adminpw")},
    DEV_PASSWORD : {None},
    SESSION_SECRET : {Some(" "), Some("k")},
    P1_CONTRACT_VERIFIED : {None, Some("1"), Some("true")} ]

InitStartup ==
  /\ db = None
  /\ tree = NoFiles
  /\ clock = 1
  /\ pre = None
  /\ \E env \in StartupEnvs : last = Process(env, "init_settings", NoSettings, 1)
  /\ npatch = 0
  /\ conn = [p \in Threads |-> IdleConn]
  /\ lock = 0
  /\ _CSP_REPORT_SAMPLING = << >>

RestartStep == \E env \in StartupEnvs : last.starts < MaxStartups /\ Restart(env)

NextStartup ==
  \/ init_settings
  \/ contract_gate
  \/ init_db
  \/ RestartStep

SpecStartup == InitStartup /\ [][NextStartup]_vars

(**************************************************************************)
(* The CSP report endpoint, POST /__csp_report                            *)
(**************************************************************************)

(* Texts are sequences of code points; 10 and 13 are the line breaks.     *)
LineBreaks == {10, 13}

(* text.replace('\n', '').replace('\r', '')[:n]                           *)
clean(text, n) ==
  LET kept == SelectSeq(text, LAMBDA c : c \notin LineBreaks)
  IN  SubSeq(kept, 1, IF Len(kept) < n THEN Len(kept) ELSE n)

(* JSON values.                                                           *)
JNull == [t |-> "null"]
JStr(text) == [t |-> "str", text |-> text]
JNum(n) == [t |-> "num", n |-> n]
JList(items) == [t |-> "list", items |-> items]
JDict(fields) == [t |-> "dict", fields |-> fields]
NoFields == [k \in {} |-> JNull]

(* Python's truth value of a JSON value.                                  *)
truthy(j) ==
  CASE j.t = "null" -> FALSE
    [] j.t = "str" -> j.text # << >>
    [] j.t = "num" -> j.n # 0
    [] j.t = "list" -> j.items # << >>
    [] j.t = "dict" -> DOMAIN j.fields # {}

(* d.get(k) and a or b                                                    *)
get(d, k) == IF k \in DOMAIN d.fields THEN d.fields[k] ELSE JNull
or(a, b) == IF truthy(a) THEN a ELSE b

(* content_type.lower() on the values the requests carry.                 *)
lower(v) ==
  CASE v = "Application/CSP-Report" -> "application/csp-report"
    [] OTHER -> v

(* ct in content_type, on the same values.                                *)
in(ct, content_type) ==
  \/ content_type = ct
  \/ /\ ct = "application/json"
     /\ content_type = "application/json; charset=utf-8"

ReportContentTypes ==
  {"application/json", "application/csp-report", "application/reports+json"}

BodyLimit == 32768
SamplingLimit == 1000
SamplingDrop == 500
SamplingWindow == 60

(* time.time(); the readings of the clock are 30 seconds apart.           *)
time_time(c) == 1700000000 + (30 * c)

(* The report inside a body: {"csp-report": {...}} or                     *)
(* {"reports": [{"body": {...}}]}; raises when the body is no container.  *)
report_of(body) ==
  IF body.t # "dict" THEN [raised |-> TRUE, report |-> JNull]
  ELSE IF "csp-report" \in DOMAIN body.fields
    THEN [raised |-> FALSE, report |-> body.fields["csp-report"]]
  ELSE IF /\ "reports" \in DOMAIN body.fields
          /\ body.fields["reports"].t = "list"
          /\ Len(body.fields["reports"].items) > 0
    THEN LET first_report == body.fields["reports"].items[1]
         IN  IF first_report.t = "dict" /\ "body" \in DOMAIN first_report.fields
               THEN [raised |-> FALSE, report |-> first_report.fields["body"]]
               ELSE [raised |-> FALSE, report |-> JNull]
  ELSE [raised |-> FALSE, report |-> JNull]

(* sorted(items, key=lambda x: x[1]): a stable sort by time of logging.   *)
RECURSIVE sorted(_, _)
sorted(items, times) ==
  IF times = {} THEN << >>
  ELSE LET first == CHOOSE x \in times : \A y \in times : x <= y
       IN  SelectSeq(items, LAMBDA e : e.at = first) \o sorted(items, times \ {first})

(* The table is never thinned.                                            *)
thin_never(table) == table

(* When the table holds SamplingLimit entries: keep sorted_items[500:].   *)
thin(table) ==
  IF Len(table) >= SamplingLimit
    THEN LET sorted_items == sorted(table, {e.at : e \in SeqToSet(table)})
         IN  SubSeq(sorted_items, SamplingDrop + 1, Len(sorted_items))
    ELSE table

Keys(table) == {e.key : e \in SeqToSet(table)}

(* _CSP_REPORT_SAMPLING.get(sampling_key, 0)                              *)
last_logged(table, sampling_key) ==
  IF sampling_key \in Keys(table)
    THEN (CHOOSE e \in SeqToSet(table) : e.key = sampling_key).at
    ELSE 0

(* _CSP_REPORT_SAMPLING[sampling_key] = now                               *)
record(table, sampling_key, now) ==
  IF sampling_key \in Keys(table)
    THEN [i \in DOMAIN table |->
            IF table[i].key = sampling_key THEN [table[i] EXCEPT !.at = now]
            ELSE table[i]]
    ELSE Append(table, [key |-> sampling_key, at |-> now])

Unknown == <<117>>

(* The handler: the table it leaves and the status it answers.            *)
csp_report_response(table, request, now) ==
  LET quiet == [table |-> table, code |-> 204, sampled |-> FALSE, key |-> << >>]
      content_type == lower(request.content_type)
      found == report_of(request.body.value)
      csp_report == found.report
      blocked_uri == or(or(get(csp_report, "blocked-uri"), get(csp_report, "blockedURI")),
                        JStr(Unknown))
      violated_directive ==
        or(or(get(csp_report, "violated-directive"), get(csp_report, "violatedDirective")),
           JStr(Unknown))
      sampling_key == <<clean(blocked_uri.text, 200), clean(violated_directive.text, 100)>>
      thinned == thin(table)
  IN  IF content_type # "" /\ ~(\E ct \in ReportContentTypes : in(ct, content_type))
        THEN quiet
      ELSE IF request.body.len = 0 THEN quiet
      ELSE IF request.body.len > BodyLimit THEN quiet
      ELSE IF request.body.value.t = "malformed" THEN quiet
      ELSE IF found.raised THEN quiet
      ELSE IF ~truthy(csp_report) THEN quiet
      ELSE IF csp_report.t # "dict" THEN quiet
      ELSE IF blocked_uri.t # "str" \/ violated_directive.t # "str" THEN quiet
      ELSE IF now - last_logged(thinned, sampling_key) < SamplingWindow
        THEN [table |-> thinned, code |-> 204, sampled |-> TRUE, key |-> sampling_key]
      ELSE [table |-> record(thinned, sampling_key, now), code |-> 204,
            sampled |-> TRUE, key |-> sampling_key]

(* One report posted to the endpoint.                                     *)
csp_report(request) ==
  \E r \in {csp_report_response(_CSP_REPORT_SAMPLING, request, time_time(clock))} :
    /\ _CSP_REPORT_SAMPLING' = r.table
    /\ pre' = db
    /\ db' = db
    /\ last' = [ request |-> request, before |-> _CSP_REPORT_SAMPLING,
                 sampled |-> r.sampled, key |-> r.key,
                 reports |-> IF last.op = "csp_report" THEN last.reports + 1 ELSE 1 ]
               @@ Last("csp_report", r.code, FALSE, clock, << >>, {}, NoCounters, "",
                       NoRequest, FALSE)
    /\ UNCHANGED <<tree, clock, npatch, conn, lock>>

(* The reports posted: the i-th site's script blocked by script-src.      *)
Uri(i) == <<32 + i>>
Directive == <<115>>
Violation(uri) ==
  JDict(("blocked-uri" :> JStr(uri)) @@ ("violated-directive" :> JStr(Directive)))

Legacy(report) == JDict("csp-report" :> report)
ReportingApi(report) ==
  JDict("reports" :> JList(<<JDict(("type" :> JStr(<<99>>)) @@ ("body" :> report))>>))

Body(value) == [len |-> 120, value |-> value]

CspRequests ==
  { [content_type |-> "text/plain", body |-> Body(Legacy(Violation(Uri(2001))))],
    [content_type |-> "Application/CSP-Report", body |-> [len |-> 0, value |-> JNull]],
    [content_type |-> "application/json",
     body |-> [len |-> 40000, value |-> Legacy(Violation(Uri(2001)))]],
    [content_type |-> "", body |-> Body([t |-> "malformed"])],
    [content_type |-> "application/json", body |-> Body(JNum(7))],
    [content_type |-> "application/json", body |-> Body(JDict("other" :> JNum(1)))],
    [content_type |-> "application/csp-report", body |-> Body(Legacy(JStr(Unknown)))],
    [content_type |-> "application/csp-report",
     body |-> Body(Legacy(JDict("blocked-uri" :> JNum(7))))],
    [content_type |-> "application/csp-report",
     body |-> Body(Legacy(JDict("source-file" :> JStr(Uri(1)))))],
    [content_type |-> "Application/CSP-Report", body |-> Body(Legacy(Violation(Uri(1))))],
    [content_type |-> "application/json; charset=utf-8",
     body |-> Body(Legacy(Violation(Uri(2001))))],
    [content_type |-> "application/csp-report",
     body |-> Body(Legacy(Violation(Uri(2001) \o <<10>>)))],
    [content_type |-> "application/reports+json",
     body |-> Body(ReportingApi(Violation(Uri(2002))))] }

(* The table after n different violations were reported at reading 0.     *)
Reported(n) ==
  [i \in 1..n |-> [key |-> <<Uri(i), Directive>>, at |-> time_time(0)]]

Fills == {0, SamplingLimit - 1, SamplingLimit}

InitCsp ==
  /\ db = EmptyDb
  /\ tree = NoFiles
  /\ clock = 1
  /\ pre = EmptyDb
  /\ last = [ op |-> "init", code |-> 0, full |-> FALSE, now |-> 1, hits |-> << >>,
              seen_paths |-> {}, resp |-> NoCounters, slug |-> "", req |-> NoRequest,
              dirty |-> FALSE, tree |-> NoFiles, root |-> None, mode |-> "local",
              body |-> None, still |-> TRUE, files |-> << >>, env |-> None,
              repeat |-> FALSE ]
  /\ npatch = 0
  /\ conn = [p \in Threads |-> IdleConn]
  /\ lock = 0
  /\ \E n \in Fills : _CSP_REPORT_SAMPLING = Reported(n)

CspReportStep ==
  \E request \in CspRequests :
    /\ last.op = "csp_report" => last.reports < MaxReports
    /\ csp_report(request)

NextCsp ==
  \/ CspReportStep
  \/ Tick

SpecCsp == InitCsp /\ [][NextCsp]_vars

(* POST /scan and PATCH with and without the CSRF cookie and header.      *)
CsrfTokens ==
  { <<None, None>>, <<None, Some("t")>>, <<Some("t"), None>>,
    <<Some("t"), Some("t")>>, <<Some("t"), Some("u")>> }

CsrfRequests ==
  { HttpRequest(session, client, media, csrf[1], csrf[2]) :
      session \in {None, Some(_sign_session("k", [role |-> "admin"]))},
      client \in { [client_host |-> "127.0.0.1", xff |-> "", host |-> "localhost"],
                   [client_host |-> "10.0.0.5", xff |-> "", host |-> "example.com"] },
      media \in { [accept |-> {"application/json"}, content_type |-> {"application/json"}],
                  [accept |-> {"text/html"}, content_type |-> {"application/json"}] },
      csrf \in CsrfTokens }

CsrfEdits ==
  { Request({"status"}, Some("doing"), None, None),
    Request({"comment"}, None, None, Some("c")) }

CsrfEnvs ==
  [ MODE : {None, Some("Prod")},
    ALLOW_LOCAL_JSON_NOAUTH : {None, Some("0")},
    ADMIN_PASSWORD : {Some("adminpw")},
    DEV_PASSWORD : {None},
    SESSION_SECRET : {Some("k")},
    P1_CONTRACT_VERIFIED : {Some("1")} ]

CsrfSettings == Started(CsrfEnvs)

CsrfScanStep ==
  \E s \in CsrfSettings : \E request \in CsrfRequests :
    Len(db.scan_log) < MaxCsrfScans /\ ScanRequest(s, request, TRUE)

CsrfPatchStep ==
  \E s \in CsrfSettings : \E request \in CsrfRequests : \E req \in CsrfEdits :
    npatch < MaxCsrfPatches /\ PatchRequest(s, request, "s1", req)

NextCsrf ==
  \/ CsrfScanStep
  \/ CsrfPatchStep
  \/ \E t \in AuthTrees : ChangeTree(t)

SpecCsrf == Init /\ [][NextCsrf]_vars

(* Scans and note edits.                                                  *)
EditTrees == {NoFiles, TreeNoteDone, TreeTwoFiles}

PatchStep == \E slug \in Slugs : \E req \in EditRequests : npatch < MaxPatches /\ Patch(slug, req)

NextEdit ==
  \/ ScanStep
  \/ PatchStep
  \/ Tick
  \/ \E t \in EditTrees : ChangeTree(t)

SpecEdit == Init /\ [][NextEdit]_vars

(* Scans pointed at a root.                                               *)
RootTrees == {NoFiles, TreeTwoFiles}

Modes == {"local", "prod"}

RequestedRoots == {None, Some("nodir"), Some("notes.txt"), Some("other")}

EnvRoots == {None, Some("other")}

ScanRootStep ==
  \E mode \in Modes : \E requested_root \in RequestedRoots : \E env_root \in EnvRoots :
    \E still \in BOOLEAN : \E full \in BOOLEAN :
      Len(db.scan_log) < MaxRootScans /\ ScanRoot(mode, requested_root, env_root, still, full)

NextRoot ==
  \/ ScanRootStep
  \/ Tick
  \/ \E t \in RootTrees : ChangeTree(t)

SpecRoot == Init /\ [][NextRoot]_vars

(* resolve_root on its own, over file systems in which app.py lies        *)
(* depth directories below the root of the file system and up to          *)
(* MaxMarkers of the directories above it (its own included) hold a       *)
(* repository marker.  "/req" and "/env" are directories, "/notes.txt"    *)
(* is a regular file, "/nodir" does not exist.                            *)
AncestorNames ==
  << "/",
     "/d1",
     "/d1/d2",
     "/d1/d2/d3",
     "/d1/d2/d3/d4",
     "/d1/d2/d3/d4/d5",
     "/d1/d2/d3/d4/d5/d6",
     "/d1/d2/d3/d4/d5/d6/d7",
     "/d1/d2/d3/d4/d5/d6/d7/d8",
     "/d1/d2/d3/d4/d5/d6/d7/d8/d9",
     "/d1/d2/d3/d4/d5/d6/d7/d8/d9/d10",
     "/d1/d2/d3/d4/d5/d6/d7/d8/d9/d10/d11",
     "/d1/d2/d3/d4/d5/d6/d7/d8/d9/d10/d11/d12",
     "/d1/d2/d3/d4/d5/d6/d7/d8/d9/d10/d11/d12/d13" >>

Chain(k) == AncestorNames[k + 1]

ChainDirs(depth) == {Chain(k) : k \in 0..depth}

ResolverFs(depth, markers) ==
  [ app_dir |-> Chain(depth),
    default |-> Chain(IF depth = 0 THEN 0 ELSE depth - 1),
    dirs |-> ChainDirs(depth) \cup {"/req", "/env"},
    files |-> {"/notes.txt"},
    markers |-> markers,
    parent |-> [p \in ChainDirs(depth) |->
                  CHOOSE q \in ChainDirs(depth) :
                    \E k \in 0..depth :
                      p = Chain(k) /\ q = Chain(IF k = 0 THEN 0 ELSE k - 1)] ]

ResolveRequested == {None, Some(""), Some("/nodir"), Some("/notes.txt"), Some("/req")}

ResolveEnv == {None, Some(""), Some("/nodir"), Some("/notes.txt"), Some("/env")}

InitResolve ==
  /\ db = EmptyDb
  /\ tree = NoFiles
  /\ clock = 1
  /\ pre = EmptyDb
  /\ \E depth \in 0..MaxAppDepth :
       \E markers \in {m \in SUBSET ChainDirs(depth) : Cardinality(m) <= MaxMarkers} :
         \E requested_root \in ResolveRequested : \E env_root \in ResolveEnv :
           last = [ op |-> "resolve_root", done |-> FALSE, depth |-> depth,
                    markers |-> markers, requested_root |-> requested_root,
                    env_root |-> env_root, root_path |-> "" ]
  /\ npatch = 0
  /\ conn = [p \in Threads |-> IdleConn]
  /\ lock = 0
  /\ _CSP_REPORT_SAMPLING = << >>

ResolveRoot ==
  /\ last.op = "resolve_root"
  /\ ~last.done
  /\ last' = [last EXCEPT !.done = TRUE,
                          !.root_path = resolve_root(ResolverFs(last.depth, last.markers),
                                                     last.requested_root, last.env_root)]
  /\ UNCHANGED <<_CSP_REPORT_SAMPLING, db, tree, clock, pre, npatch, conn, lock>>

NextResolve == ResolveRoot

SpecResolve == InitResolve /\ [][NextResolve]_vars

(* ---------------------------------------------------------------------- *)
(* The File Walker over a file system                                     *)
(* ---------------------------------------------------------------------- *)
(* A path is the sequence of its components (Path.parts), the anchor "/"  *)
(* first; a component is the sequence of the pieces between its dots:     *)
(* "a.py" is <<"a", "py">>, ".git" is <<"", "git">>, "build" is           *)
(* <<"build">>.                                                           *)
Anchor == <<"/">>

EXCLUDE_DIRS ==
  { <<"", "git">>, <<"", "venv">>, <<"venv">>, <<"__pycache__">>,
    <<"", "pytest_cache">>, <<"", "mypy_cache">>, <<"", "ruff_cache">>,
    <<"node_modules">>, <<"dist">>, <<"build">> }

SCAN_EXTS ==
  { <<"", "py">>, <<"", "md">>, <<"", "ts">>, <<"", "tsx">>, <<"", "js">>, <<"", "jsx">> }

(* Path.suffix: the last component from its last dot on, when that dot is *)
(* neither the first nor the last character of the component; else "".    *)
suffix(p) ==
  LET name == p[Len(p)]
      n == Len(name)
  IN  IF /\ n >= 2
         /\ (n > 2 \/ name[1] # "")
         /\ name[n] # ""
      THEN <<"", name[n]>>
      ELSE <<"">>

parts(p) == {p[i] : i \in DOMAIN p}

is_file(fs, p) == p \in fs.files

(* root.rglob("*"): every entry below root, at any depth.                 *)
rglob(fs, root) ==
  { p \in fs.dirs \cup fs.files \cup fs.others :
      Len(p) > Len(root) /\ SubSeq(p, 1, Len(root)) = root }

(* iter_source_files over the file system: the paths it yields.          *)
walk_source_files(fs, root) ==
  { p \in rglob(fs, root) :
      /\ is_file(fs, p)
      /\ suffix(p) \in SCAN_EXTS
      /\ ~ \E exc \in EXCLUDE_DIRS : exc \in parts(p) }

(* Where the scan root lies, the directories walked down from it, the     *)
(* names of the entry found there and what the entry is.                  *)
WalkRoots ==
  { <<Anchor, <<"proj">> >>,
    <<Anchor, <<"home">>, <<"proj">> >>,
    <<Anchor, <<"build">>, <<"proj">> >>,
    <<Anchor, <<"home">>, <<"", "venv">>, <<"proj">> >> }

WalkDirNames == { <<"src">>, <<"build">>, <<"", "git">>, <<"dist", "py">> }

WalkFileNames ==
  { <<"a", "py">>, <<"a", "txt">>, <<"README">>, <<"", "py">>,
    <<"a", "PY">>, <<"build", "py">>, <<"a", "test", "ts">>, <<"a", "">> }

WalkKinds == {"file", "dir", "socket"}

RECURSIVE WalkDirs(_)
WalkDirs(depth) ==
  IF depth = 0 THEN { << >> }
  ELSE WalkDirs(depth - 1)
         \cup { Append(d, c) : d \in { e \in WalkDirs(depth - 1) : Len(e) = depth - 1 },
                               c \in WalkDirNames }

Prefixes(p) == { SubSeq(p, 1, k) : k \in 1..Len(p) }

(* The file system that holds the root, the directories walked and the    *)
(* entry, and a regular file main.py next to the root.                    *)
WalkFs(root, rel, kind) ==
  LET entry == root \o rel
      above == Prefixes(SubSeq(entry, 1, Len(entry) - 1))
  IN  [ dirs |-> above \cup (IF kind = "dir" THEN {entry} ELSE {}),
        files |-> {Append(SubSeq(root, 1, Len(root) - 1), <<"main", "py">>)}
                    \cup (IF kind = "file" THEN {entry} ELSE {}),
        others |-> IF kind = "socket" THEN {entry} ELSE {} ]

InitWalk ==
  /\ db = EmptyDb
  /\ tree = NoFiles
  /\ clock = 1
  /\ pre = EmptyDb
  /\ \E root \in WalkRoots : \E d \in WalkDirs(MaxWalkDepth) :
       \E name \in WalkFileNames : \E kind \in WalkKinds :
         last = [ op |-> "iter_source_files", done |-> FALSE, root |-> root,
                  rel |-> Append(d, name), kind |-> kind, yielded |-> {} ]
  /\ npatch = 0
  /\ conn = [p \in Threads |-> IdleConn]
  /\ lock = 0
  /\ _CSP_REPORT_SAMPLING = << >>

Walk ==
  /\ last.op = "iter_source_files"
  /\ ~last.done
  /\ last' = [last EXCEPT !.done = TRUE,
                          !.yielded = walk_source_files(
                                        WalkFs(last.root, last.rel, last.kind), last.root)]
  /\ UNCHANGED <<_CSP_REPORT_SAMPLING, db, tree, clock, pre, npatch, conn, lock>>

NextWalk == Walk

SpecWalk == InitWalk /\ [][NextWalk]_vars

(* Note edits of every kind: fields present or absent, null, valid and    *)
(* invalid values, alone and together.                                    *)
PatchTrees == {NoFiles, TreeNote}

PatchRequests ==
  { Request({}, None, None, None),
    Request({"status"}, Some("doing"), None, None),
    Request({"status"}, Some("open"), None, None),
    Request({"status"}, Some("bogus"), None, None),
    Request({"status"}, None, None, None),
    Request({"priority"}, None, Some(2), None),
    Request({"priority"}, None, Some(0), None),
    Request({"priority"}, None, Some(4), None),
    Request({"priority"}, None, None, None),
    Request({"comment"}, None, None, Some("c")),
    Request({"comment"}, None, None, None),
    Request({"status", "priority"}, Some("doing"), Some(2), None),
    Request({"status", "priority"}, Some("done"), Some(4), None),
    Request({"status", "comment"}, Some("open"), None, Some("c")),
    Request({"status", "priority", "comment"}, Some("doing"), Some(2), Some("c")) }

EditSlugs == {"s1"}

EditStep ==
  \E slug \in EditSlugs : \E req \in PatchRequests : npatch < MaxEdits /\ Patch(slug, req)

EditScanStep == \E full \in BOOLEAN : Len(db.scan_log) < MaxEditScans /\ Scan(full)

NextPatch ==
  \/ EditScanStep
  \/ EditStep
  \/ Tick
  \/ \E t \in PatchTrees : ChangeTree(t)

SpecPatch == Init /\ [][NextPatch]_vars

(* Note edits on worker threads, with scans committing in between.       *)
RaceTrees == {NoFiles, TreeNote, TreeNoteDone}

RaceRequests ==
  { Request({"priority"}, None, Some(2), None),
    Request({"comment"}, None, None, Some("c")),
    Request({"status"}, Some("doing"), None, None),
    Request({"status"}, None, None, None) }

RaceScanStep == \E full \in BOOLEAN : Len(db.scan_log) < MaxRaceScans /\ Scan(full)

RaceSelectStep ==
  \E p \in Threads : \E req \in RaceRequests :
    npatch < MaxRacePatches /\ PSelect(p, "s1", req)

RaceWriteStep == \E p \in Threads : PWrite(p)

NextRace ==
  \/ RaceScanStep
  \/ RaceSelectStep
  \/ RaceWriteStep
  \/ Tick
  \/ \E t \in RaceTrees : ChangeTree(t)

SpecRace == Init /\ [][NextRace]_vars

(* Concurrent scans.                                                      *)
ConcTrees == {NoFiles, TreeNote, TreeNoteDone, TreeSameLine, TreeTwoFiles}

NextConc ==
  \/ \E p \in Threads : \E full \in BOOLEAN : CBegin(p, full)
  \/ \E p \in Threads : CFileSelect(p)
  \/ \E p \in Threads : CFileWrite(p)
  \/ \E p \in Threads : CUpsertSelect(p)
  \/ \E p \in Threads : CUpsertWrite(p)
  \/ \E p \in Threads : CEvidenceSelect(p)
  \/ \E p \in Threads : CEvidenceWrite(p)
  \/ \E p \in Threads : CForceSelect(p)
  \/ \E p \in Threads : CForceWrite(p)
  \/ \E p \in Threads : CStaleSelect(p)
  \/ \E p \in Threads : CStaleWrite(p)
  \/ \E p \in Threads : COrphanSelect(p)
  \/ \E p \in Threads : COrphanWrite(p)
  \/ \E p \in Threads : CFinish(p)
  \/ \E p \in Threads : CCommit(p)
  \/ \E p \in Threads : CLockTimeout(p)
  \/ \E t \in ConcTrees : AllIdle /\ ChangeTree(t)

SpecConc == Init /\ [][NextConc]_vars

(* The same scans with the scheduling of the worker threads: a thread     *)
(* that can take a step of its scan eventually takes one.  A statement    *)
(* that needs the write lock either gets it or, after the busy timeout of *)
(* its connection (5 seconds, the default of sqlite3.connect), raises.    *)
ThreadStep(p) ==
  \/ CFileSelect(p)
  \/ CFileWrite(p)
  \/ CUpsertSelect(p)
  \/ CUpsertWrite(p)
  \/ CEvidenceSelect(p)
  \/ CEvidenceWrite(p)
  \/ CForceSelect(p)
  \/ CForceWrite(p)
  \/ CStaleSelect(p)
  \/ CStaleWrite(p)
  \/ COrphanSelect(p)
  \/ COrphanWrite(p)
  \/ CFinish(p)
  \/ CCommit(p)
  \/ CLockTimeout(p)

LiveTrees == {NoFiles, TreeNoteDone, TreeTwoFiles}

NextLive ==
  \/ \E p \in Threads : \E full \in BOOLEAN : CBegin(p, full)
  \/ \E p \in Threads : ThreadStep(p)
  \/ \E t \in LiveTrees : AllIdle /\ ChangeTree(t)

SpecLive ==
  /\ Init
  /\ [][NextLive]_vars
  /\ \A p \in Threads : WF_vars(ThreadStep(p))

(* ---------------------------------------------------------------------- *)
(* Properties                                                             *)
(* ---------------------------------------------------------------------- *)
ScanCommitted == last.op = "scan" /\ last.code = 200
HitSlugs == {last.hits[i].slug : i \in DOMAIN last.hits}
DoneHitSlugs == {last.hits[i].slug : i \in {j \in DOMAIN last.hits : last.hits[j].kind = "done"}}
NewEvents == SubSeq(db.note_events, Len(pre.note_events) + 1, Len(db.note_events))
EventsOf(evs, id) == SelectSeq(evs, LAMBDA e : e.note_id = id)
StatusEvent(id, old, new) ==
  [note_id |-> id, event_type |-> "status_change", old_value |-> Some(old), new_value |-> Some(new)]
IsStatusEvent(e, id, old, new) ==
  /\ e.note_id = id /\ e.event_type = "status_change"
  /\ e.old_value = Some(old) /\ e.new_value = Some(new)
EvidenceKey(e) == <<e.note_id, e.filepath, e.line_no>>
EvidenceKeys(d) == {EvidenceKey(d.evidence[i]) : i \in DOMAIN d.evidence}
NoteIdOf(d, slug) == select_note(d, slug)[1].id
HitKeys == {<<NoteIdOf(db, last.hits[i].slug), last.hits[i].path, last.hits[i].line>> :
              i \in DOMAIN last.hits}

(* C1: a diff scan reports stale_marked = 0 and orphan_files_removed = 0, *)
(* makes no note stale and deletes no file_state row, whatever the ledger *)
(* and the file tree are.                                                 *)
C1_DiffScanNeverStale ==
  (ScanCommitted /\ ~last.full) =>
    /\ last.resp.stale_marked = 0
    /\ last.resp.orphan_files_removed = 0
    /\ \A i \in DOMAIN pre.notes :
         pre.notes[i].status # "stale" => db.notes[i].status # "stale"
    /\ \A p \in Paths : pre.file_state[p] # None => db.file_state[p] # None

(* A diff scan ran after an active note's slug and a fingerprinted file   *)
(* had disappeared from the tree.                                         *)
C1_Witness ==
  /\ ScanCommitted /\ ~last.full
  /\ \E i \in DOMAIN pre.notes :
       pre.notes[i].status \in ACTIVE_STATUSES /\ pre.notes[i].slug \notin HitSlugs
  /\ \E p \in Paths : pre.file_state[p] # None /\ p \notin last.seen_paths

(* C2: the evidence table never holds two rows with the same              *)
(* (note_id, filepath, line_no); a scan adds exactly the occurrences of   *)
(* its hits that were not recorded yet, and evidence_added counts them.   *)
C2_EvidenceUnique ==
  /\ \A i, j \in DOMAIN db.evidence :
       i # j => EvidenceKey(db.evidence[i]) # EvidenceKey(db.evidence[j])
  /\ ScanCommitted =>
       /\ last.resp.evidence_added = Cardinality(HitKeys \ EvidenceKeys(pre))
       /\ Len(db.evidence) = Len(pre.evidence) + last.resp.evidence_added

(* A scan met an occurrence that was already recorded and added nothing.  *)
C2_Witness ==
  /\ ScanCommitted
  /\ last.hits # << >>
  /\ HitKeys \subseteq EvidenceKeys(pre)
  /\ last.resp.evidence_added = 0
  /\ db.evidence = pre.evidence

(* C5: a note that is stale when a scan starts and whose slug is in a     *)
(* DONE hit of the scan ends done, revived (stale->open) first and then   *)
(* completed (open->done), with revived_count >= 1 and done_forced >= 1.  *)
C5_ReviveThenComplete ==
  ScanCommitted =>
    \A i \in DOMAIN pre.notes :
      (pre.notes[i].status = "stale" /\ pre.notes[i].slug \in DoneHitSlugs) =>
        /\ db.notes[i].status = "done"
        /\ \E a, b \in DOMAIN NewEvents :
             /\ a < b
             /\ IsStatusEvent(NewEvents[a], pre.notes[i].id, "stale", "open")
             /\ IsStatusEvent(NewEvents[b], pre.notes[i].id, "open", "done")
        /\ last.resp.revived_count >= 1
        /\ last.resp.done_forced >= 1

C5_Witness ==
  /\ ScanCommitted
  /\ \E i \in DOMAIN pre.notes :
       /\ pre.notes[i].status = "stale"
       /\ pre.notes[i].slug \in DoneHitSlugs
       /\ db.notes[i].status = "done"

(* C6: a full scan that first sees a slug with NOTE tags only leaves the  *)
(* note open; a full scan that does not see the slug of an open note      *)
(* leaves it stale with stale_marked >= 1; a full scan that sees the slug *)
(* of a stale note (NOTE tags only) leaves it open with                   *)
(* revived_count >= 1.                                                    *)
C6_StaleRoundTrip ==
  (ScanCommitted /\ last.full) =>
    /\ \A s \in HitSlugs \ DoneHitSlugs :
         select_note(pre, s) = None => select_note(db, s)[1].status = "open"
    /\ \A i \in DOMAIN pre.notes :
         /\ (pre.notes[i].status = "open" /\ pre.notes[i].slug \notin HitSlugs) =>
              (db.notes[i].status = "stale" /\ last.resp.stale_marked >= 1)
         /\ (pre.notes[i].status = "stale" /\ pre.notes[i].slug \in HitSlugs \ DoneHitSlugs) =>
              (db.notes[i].status = "open" /\ last.resp.revived_count >= 1)

(* The third scan of the round trip: the note's whole history is          *)
(* created, open->stale, stale->open.                                     *)
C6_Witness ==
  /\ ScanCommitted /\ last.full
  /\ last.resp.revived_count >= 1
  /\ \E i \in DOMAIN db.notes :
       /\ db.notes[i].status = "open"
       /\ LET evs == EventsOf(db.note_events, db.notes[i].id)
          IN  /\ Len(evs) = 3
              /\ evs[1].event_type = "created"
              /\ IsStatusEvent(evs[2], db.notes[i].id, "open", "stale")
              /\ IsStatusEvent(evs[3], db.notes[i].id, "stale", "open")

(* C7: a note that is done when a scan starts is done when it ends, in    *)
(* full and diff scans, seen or not seen, and the scan appends no event   *)
(* for it.                                                                *)
C7_DoneIsTerminal ==
  ScanCommitted =>
    \A i \in DOMAIN pre.notes :
      pre.notes[i].status = "done" =>
        /\ db.notes[i].status = "done"
        /\ EventsOf(NewEvents, pre.notes[i].id) = << >>

(* A full scan ran while a done note's slug was in none of its hits.      *)
C7_Witness ==
  /\ ScanCommitted /\ last.full
  /\ \E i \in DOMAIN pre.notes :
       pre.notes[i].status = "done" /\ pre.notes[i].slug \notin HitSlugs

(* C8: after a full scan every note that was open, doing or parked and    *)
(* whose slug is in none of the scan's hits is stale, stale_marked is     *)
(* their number, and no note whose slug is in the hits is stale.          *)
MissingNotes ==
  {i \in DOMAIN pre.notes :
     pre.notes[i].status \in ACTIVE_STATUSES /\ pre.notes[i].slug \notin HitSlugs}

C8_FullScanMarksMissing ==
  (ScanCommitted /\ last.full) =>
    /\ \A i \in MissingNotes : db.notes[i].status = "stale"
    /\ last.resp.stale_marked = Cardinality(MissingNotes)
    /\ \A i \in DOMAIN db.notes :
         db.notes[i].slug \in HitSlugs =>
           /\ db.notes[i].status # "stale"
           /\ \A k \in DOMAIN NewEvents :
                NewEvents[k].note_id = db.notes[i].id => NewEvents[k].new_value # Some("stale")

(* A full scan missed a doing or parked note and saw another note.        *)
C8_Witness ==
  /\ ScanCommitted /\ last.full
  /\ \E i \in MissingNotes : pre.notes[i].status \in {"doing", "parked"}
  /\ \E i \in DOMAIN pre.notes : pre.notes[i].slug \in HitSlugs
  /\ last.resp.stale_marked >= 1

(* C9: the events a scan appends are exactly its status changes: their    *)
(* number is created + revived_count + done_forced + stale_marked, the    *)
(* events of each note lead from its status before the scan to its status *)
(* after it, and a note whose status is unchanged gets no event.          *)
StatusChain(evs, start, end) ==
  IF evs = << >> THEN start = end
  ELSE /\ evs[1].old_value = start
       /\ evs[Len(evs)].new_value = end
       /\ \A k \in 1..(Len(evs) - 1) : evs[k].new_value = evs[k + 1].old_value
       /\ \A k \in DOMAIN evs :
            /\ evs[k].old_value # evs[k].new_value
            /\ evs[k].event_type = (IF evs[k].old_value = None THEN "created" ELSE "status_change")
            /\ evs[k].changed_at = last.now

C9_OneEventPerChange ==
  ScanCommitted =>
    /\ SubSeq(db.note_events, 1, Len(pre.note_events)) = pre.note_events
    /\ Len(NewEvents) = (Len(db.notes) - Len(pre.notes)) + last.resp.revived_count
                          + last.resp.done_forced + last.resp.stale_marked
    /\ \A k \in DOMAIN NewEvents : \E i \in DOMAIN db.notes : db.notes[i].id = NewEvents[k].note_id
    /\ \A i \in DOMAIN db.notes :
         LET start == IF i \in DOMAIN pre.notes THEN Some(pre.notes[i].status) ELSE None
             end == Some(db.notes[i].status)
             evs == EventsOf(NewEvents, db.notes[i].id)
         IN  /\ StatusChain(evs, start, end)
             /\ (start = end) => (evs = << >>)

(* A scan changed a doing or parked note and appended several events.     *)
C9_Witness ==
  /\ ScanCommitted
  /\ Len(NewEvents) >= 2
  /\ \E k \in DOMAIN NewEvents : NewEvents[k].old_value \in {Some("doing"), Some("parked")}

(* C10: a full scan that repeats the full scan served just before it, on  *)
(* the same file tree, leaves notes, evidence, events and file state as   *)
(* they were and reports evidence_added = done_forced = stale_marked =    *)
(* revived_count = orphan_files_removed = 0; it appends its scan_log row  *)
(* and sets last_scan_at.                                                 *)
C10_FullScanIdempotent ==
  (ScanCommitted /\ last.full /\ last.repeat) =>
    /\ db.notes = pre.notes
    /\ db.evidence = pre.evidence
    /\ db.note_events = pre.note_events
    /\ db.file_state = pre.file_state
    /\ last.resp.evidence_added = 0
    /\ last.resp.done_forced = 0
    /\ last.resp.stale_marked = 0
    /\ last.resp.revived_count = 0
    /\ last.resp.orphan_files_removed = 0
    /\ Len(db.scan_log) = Len(pre.scan_log) + 1
    /\ db.last_scan_at = Some(last.now)

(* The second of two full scans of a tree with hits, a second later,      *)
(* after a first one that had changed the ledger.                         *)
C10_Witness ==
  /\ ScanCommitted /\ last.full /\ last.repeat
  /\ last.hits # << >>
  /\ LET first == pre.scan_log[Len(pre.scan_log)]
     IN  /\ first.evidence_added + first.done_forced + first.stale_marked
              + first.revived_count >= 2
         /\ first.scanned_at < last.now

(* C4: a scan that fails with a storage error leaves the whole ledger as  *)
(* it was before the scan; the ledger changes only together with the      *)
(* scan's scan_log row.                                                   *)
C4_ScanAtomic ==
  last.op = "scan" =>
    /\ (last.code = 500) => (db = pre)
    /\ (db.scan_log = pre.scan_log) => (db = pre)
    /\ (db # pre) => (Len(db.scan_log) = Len(pre.scan_log) + 1)

(* A scan failed after its transaction had already written.               *)
C4_Witness ==
  /\ last.op = "scan" /\ last.code = 500
  /\ last.dirty
  /\ db = pre

(* C3: whatever the interleaving of concurrent scans, the committed       *)
(* ledger is one that the scans run one after another would produce: no   *)
(* evidence triple (note_id, filepath, line_no) is stored twice and no    *)
(* note gets two stale->open or two active->done events for one           *)
(* transition.                                                            *)
C3_ConcurrentScansSerialize ==
  /\ \A i, j \in DOMAIN db.evidence :
       i # j => EvidenceKey(db.evidence[i]) # EvidenceKey(db.evidence[j])
  /\ \A i \in DOMAIN db.notes :
       LET evs == EventsOf(db.note_events, db.notes[i].id)
       IN  \A k \in 1..(Len(evs) - 1) :
             ~ /\ evs[k].event_type = "status_change"
               /\ evs[k + 1].event_type = "status_change"
               /\ evs[k].new_value = evs[k + 1].new_value
               /\ evs[k].new_value \in {Some("open"), Some("done")}

(* C11: a diff scan of a tree whose every eligible file has the (mtime,   *)
(* size) fingerprint stored in file_state reports files_scanned = 0 and   *)
(* every other counter 0 and leaves notes, evidence and events as they    *)
(* were; the first diff scan of an empty ledger over one file holding one *)
(* NOTE tag reports files_scanned = slugs_found = evidence_added = 1 and  *)
(* the other counters 0.                                                  *)
Fingerprinted(d, t) ==
  \A p \in Paths :
    t[p] # None =>
      /\ d.file_state[p] # None
      /\ d.file_state[p][1].mtime_ns = file_hash_key(t, p).mtime_ns
      /\ d.file_state[p][1].size_bytes = file_hash_key(t, p).size_bytes

OneNoteTree(t) ==
  \E p \in Paths : \E s \in Slugs :
    /\ t[p] # None
    /\ t[p][1].readable
    /\ t[p][1].body = << <<Tag("note", s)>> >>
    /\ \A q \in Paths \ {p} : t[q] = None

Counters(fs, sf, ea, df, sm, rc, orf) ==
  [ scanned_root |-> RepoRoot, files_scanned |-> fs, slugs_found |-> sf,
    evidence_added |-> ea, done_forced |-> df, stale_marked |-> sm,
    revived_count |-> rc, orphan_files_removed |-> orf ]

C11_UnchangedDiffScan ==
  (ScanCommitted /\ ~last.full) =>
    /\ Fingerprinted(pre, last.tree) =>
         /\ last.resp = Counters(0, 0, 0, 0, 0, 0, 0)
         /\ db.notes = pre.notes
         /\ db.evidence = pre.evidence
         /\ db.note_events = pre.note_events
    /\ (pre = EmptyDb /\ OneNoteTree(last.tree)) =>
         last.resp = Counters(1, 1, 1, 0, 0, 0, 0)

(* A diff scan found every file of a tree with tags fingerprinted, in a   *)
(* ledger that has notes.                                                 *)
C11_Witness ==
  /\ ScanCommitted /\ ~last.full
  /\ last.seen_paths # {}
  /\ Fingerprinted(pre, last.tree)
  /\ pre.notes # << >>
  /\ last.resp.files_scanned = 0

(* C12: upsert/revive takes effect once per distinct slug of the hit      *)
(* batch: a slug with k >= 1 hits has one note, gets one created event    *)
(* exactly when it had no note, one stale->open event exactly when its    *)
(* note was stale, and adds 1 to revived_count exactly in that case;      *)
(* each of its k hits has its evidence row.                               *)
HitsOf(slug) == {i \in DOMAIN last.hits : last.hits[i].slug = slug}

WasStale(slug) ==
  select_note(pre, slug) # None /\ select_note(pre, slug)[1].status = "stale"

C12_UpsertOncePerSlug ==
  ScanCommitted =>
    /\ \A s \in HitSlugs :
         LET evs == EventsOf(NewEvents, NoteIdOf(db, s))
             created == SelectSeq(evs, LAMBDA e : e.event_type = "created")
             revives == SelectSeq(evs, LAMBDA e : e.new_value = Some("open")
                                                  /\ e.event_type = "status_change")
         IN  /\ Cardinality({i \in DOMAIN db.notes : db.notes[i].slug = s}) = 1
             /\ Len(created) = (IF select_note(pre, s) = None THEN 1 ELSE 0)
             /\ Len(revives) = (IF WasStale(s) THEN 1 ELSE 0)
             /\ \A k \in DOMAIN revives : revives[k].old_value = Some("stale")
    /\ last.resp.revived_count = Cardinality({s \in HitSlugs : WasStale(s)})
    /\ Len(db.notes) - Len(pre.notes)
         = Cardinality({s \in HitSlugs : select_note(pre, s) = None})
    /\ HitKeys \subseteq EvidenceKeys(db)

(* A scan had two hits or more for the slug of a stale note and counted   *)
(* one revive.                                                            *)
C12_Witness ==
  /\ ScanCommitted
  /\ \E s \in HitSlugs : Cardinality(HitsOf(s)) >= 2 /\ WasStale(s)
  /\ last.resp.revived_count = 1

(* C13: in a full or diff scan, every note whose slug is in a DONE hit    *)
(* and that is open, doing or parked after upsert/revive (it was not done *)
(* before the scan) ends done with exactly one status_change event to     *)
(* done, whose old value is its status after upsert/revive; done_forced   *)
(* is the number of these notes.  A slug first seen in this scan is       *)
(* created open and completed: an empty ledger scanned over NOTE and DONE *)
(* of one slug ends with the note done and done_forced = 1.               *)
StatusAfterUpsert(slug) ==
  IF select_note(pre, slug) = None \/ WasStale(slug) THEN "open"
  ELSE select_note(pre, slug)[1].status

Completed == {s \in DoneHitSlugs : StatusAfterUpsert(s) \in ACTIVE_STATUSES}

C13_ForcedCompletion ==
  ScanCommitted =>
    /\ \A s \in Completed :
         LET note == select_note(db, s)[1]
             done == SelectSeq(EventsOf(NewEvents, note.id),
                               LAMBDA e : e.new_value = Some("done"))
         IN  /\ note.status = "done"
             /\ Len(done) = 1
             /\ IsStatusEvent(done[1], note.id, StatusAfterUpsert(s), "done")
    /\ last.resp.done_forced = Cardinality(Completed)
    /\ (pre = EmptyDb /\ last.tree = TreeNoteDone) =>
         (select_note(db, "s1")[1].status = "done" /\ last.resp.done_forced = 1)

(* A scan completed a note that an edit had set to doing or parked.       *)
C13_Witness ==
  /\ ScanCommitted
  /\ \E s \in Completed : StatusAfterUpsert(s) \in {"doing", "parked"}
  /\ last.resp.done_forced >= 1

(* C14: after a full scan whose walk observed some path, every file_state *)
(* row left has an observed path, the rows of observed paths are as they  *)
(* were, and orphan_files_removed is the number of rows deleted; a full   *)
(* scan whose walk observed no path deletes no file_state row and reports *)
(* orphan_files_removed = 0.                                              *)
DeletedFileState == {p \in Paths : pre.file_state[p] # None /\ db.file_state[p] = None}

C14_OrphanCleanup ==
  (ScanCommitted /\ last.full) =>
    /\ (last.seen_paths # {}) =>
         /\ \A p \in Paths : db.file_state[p] # None => p \in last.seen_paths
         /\ \A p \in last.seen_paths : db.file_state[p] = pre.file_state[p]
         /\ last.resp.orphan_files_removed = Cardinality(DeletedFileState)
    /\ (last.seen_paths = {}) =>
         /\ db.file_state = pre.file_state
         /\ last.resp.orphan_files_removed = 0

(* A full scan deleted the row of a file that is gone and kept the row of *)
(* a file it walked.                                                      *)
C14_Witness ==
  /\ ScanCommitted /\ last.full
  /\ DeletedFileState # {}
  /\ \E p \in last.seen_paths : db.file_state[p] # None
  /\ last.resp.orphan_files_removed >= 1

(* C15: a scan that succeeds appends exactly one scan_log row, whose      *)
(* root, full flag and counters are the ones returned to the caller, and  *)
(* sets last_scan_at to the row's timestamp; a request that does not      *)
(* succeed as a scan appends none; the rows already in scan_log are never *)
(* changed or deleted.                                                    *)
C15_ScanLogAppendOnly ==
  /\ Len(pre.scan_log) <= Len(db.scan_log)
  /\ SubSeq(db.scan_log, 1, Len(pre.scan_log)) = pre.scan_log
  /\ ScanCommitted =>
       /\ Len(db.scan_log) = Len(pre.scan_log) + 1
       /\ db.scan_log[Len(db.scan_log)]
            = [scanned_at |-> last.now, full |-> last.full] @@ last.resp
       /\ db.last_scan_at = Some(db.scan_log[Len(db.scan_log)].scanned_at)
  /\ ~ScanCommitted => db.scan_log = pre.scan_log

(* A second scan, of another root and a second later than the first,      *)
(* appended its row with counters that are not all equal.                 *)
C15_Witness ==
  /\ ScanCommitted
  /\ Len(db.scan_log) = 2
  /\ db.scan_log[1].scanned_root # db.scan_log[2].scanned_root
  /\ db.scan_log[1].scanned_at < db.scan_log[2].scanned_at
  /\ last.resp.stale_marked # last.resp.revived_count

(* C16: a scan whose requested root does not exist or is not a directory  *)
(* is refused with the invalid-root error (400) and leaves the whole      *)
(* ledger, scan_log and last_scan_at included, as it was.                 *)
InvalidRequestedRoot ==
  /\ last.root # None
  /\ ~(exists(RepoFs, last.root[1]) /\ is_dir(RepoFs, last.root[1]))

C16_InvalidRootRefused ==
  (last.op = "scan" /\ InvalidRequestedRoot) =>
    /\ last.code = 400
    /\ db = pre

(* C16, as the code has it: an invalid requested root is skipped by       *)
(* resolve_root; the scan that is refused with 400, leaving the whole     *)
(* ledger as it was, is the one whose resolved directory is gone when     *)
(* scan() looks at it.                                                    *)
C16_InvalidResolvedRootRefused ==
  (last.op = "scan" /\ ~last.still) =>
    /\ last.code = 400
    /\ db = pre

(* A full scan of a tree with tags is refused after an earlier scan has   *)
(* filled the ledger.                                                     *)
C16_Witness ==
  /\ last.op = "scan" /\ ~last.still /\ last.code = 400 /\ last.full
  /\ tree = TreeTwoFiles
  /\ Len(db.scan_log) = 1
  /\ Len(db.notes) > 0

(* C17: a note becomes stale only by a committed full scan whose hits do  *)
(* not hold its slug; no diff scan and no PATCH makes a note stale.       *)
C17_StaleOnlyByFullScan ==
  \A i \in DOMAIN pre.notes :
    (pre.notes[i].status # "stale" /\ db.notes[i].status = "stale") =>
      /\ ScanCommitted
      /\ last.full
      /\ pre.notes[i].slug \notin HitSlugs

(* C19: no scan deletes a note or changes the id or the slug of one: the  *)
(* notes before the scan are all there after it, also when no file        *)
(* carries their slugs any more.                                          *)
C19_ScanKeepsNotes ==
  ScanCommitted =>
    /\ Len(db.notes) >= Len(pre.notes)
    /\ \A i \in DOMAIN pre.notes :
         /\ db.notes[i].id = pre.notes[i].id
         /\ db.notes[i].slug = pre.notes[i].slug
    /\ {pre.notes[i].slug : i \in DOMAIN pre.notes}
         \subseteq {db.notes[i].slug : i \in DOMAIN db.notes}

(* A full scan of a tree without files ran on a ledger with two notes.    *)
C19_Witness ==
  /\ ScanCommitted /\ last.full
  /\ last.seen_paths = {}
  /\ Len(pre.notes) = 2
  /\ last.resp.stale_marked >= 1

(* C18: in every ledger reached by scans and PATCH edits no two notes     *)
(* share a slug, every status is one of open, doing, parked, done, stale, *)
(* and every priority is null or an integer from 1 to 3.                  *)
C18_NoteInvariant ==
  /\ \A i, j \in DOMAIN db.notes : i # j => db.notes[i].slug # db.notes[j].slug
  /\ \A i \in DOMAIN db.notes :
       /\ db.notes[i].status \in {"open", "doing", "parked", "done", "stale"}
       /\ \/ db.notes[i].priority = None
          \/ db.notes[i].priority[1] \in 1..3

(* A PATCH with a priority outside 1..3 or an unknown status was refused  *)
(* on a note that an earlier PATCH had given a priority.                  *)
C18_Witness ==
  /\ last.op = "patch" /\ last.code = 400
  /\ \/ (last.req.priority # None /\ last.req.priority[1] \notin 1..3)
     \/ (last.req.status # None /\ last.req.status[1] \notin ALLOWED_STATUS)
  /\ select_note(db, last.slug) # None
  /\ select_note(db, last.slug)[1].priority # None

(* C20: a PATCH on an existing note that carries no field, or that        *)
(* carries no comment and only a status and/or priority equal to the      *)
(* note's, is answered 204 and changes nothing in the ledger (status,     *)
(* priority, updated_at, events); a PATCH with valid fields of which the  *)
(* status or the priority differs from the note's is answered 200 with    *)
(* the new status, which is then the note's status.                       *)
Patched == select_note(pre, last.slug)[1]

SameValues ==
  /\ "comment" \notin last.req.fields_set
  /\ "status" \in last.req.fields_set => last.req.status = Some(Patched.status)
  /\ "priority" \in last.req.fields_set => last.req.priority = Patched.priority

ValidRequest ==
  /\ "status" \in last.req.fields_set =>
       (last.req.status # None /\ last.req.status[1] \in ALLOWED_STATUS)
  /\ "priority" \in last.req.fields_set =>
       (last.req.priority = None \/ last.req.priority[1] \in 1..3)
  /\ "comment" \in last.req.fields_set => last.req.comment # None

ChangesValue ==
  \/ "status" \in last.req.fields_set /\ last.req.status # Some(Patched.status)
  \/ "priority" \in last.req.fields_set /\ last.req.priority # Patched.priority

C20_NoOpPatch ==
  (last.op = "patch" /\ select_note(pre, last.slug) # None) =>
    /\ (last.req.fields_set = {} \/ SameValues) =>
         /\ last.code = 204
         /\ db = pre
    /\ (ValidRequest /\ ChangesValue) =>
         /\ last.code = 200
         /\ last.body = Some(patch_status(Patched, last.req))
         /\ select_note(db, last.slug)[1].status = patch_status(Patched, last.req)

(* A PATCH repeated a status and a priority that an earlier PATCH had     *)
(* set, a second later, and was answered 204.                             *)
C20_Witness ==
  /\ last.op = "patch" /\ last.code = 204
  /\ select_note(pre, last.slug) # None
  /\ last.req.fields_set = {"status", "priority"}
  /\ Patched.priority # None
  /\ Patched.updated_at < last.now

(* C21: a committed diff scan read exactly the eligible files that had    *)
(* no file_state row or whose (mtime, size) differed from the stored one, *)
(* and afterwards every file the walk inspected, changed or not, has its  *)
(* (mtime, size) of inspection time stored in file_state.                 *)
StoredFingerprint(d, t, p) ==
  /\ d.file_state[p] # None
  /\ d.file_state[p][1].mtime_ns = t[p][1].mtime
  /\ d.file_state[p][1].size_bytes = st_size(t[p][1].body)

C21_ChangeDetector ==
  (ScanCommitted /\ ~last.full) =>
    /\ last.seen_paths = {p \in Paths : last.tree[p] # None}
    /\ SeqToSet(last.files) =
         {p \in last.seen_paths : ~StoredFingerprint(pre, last.tree, p)}
    /\ \A p \in last.seen_paths : StoredFingerprint(db, last.tree, p)

(* A diff scan inspected one file that had not changed and one that had  *)
(* no fingerprint yet.                                                    *)
C21_Witness ==
  /\ ScanCommitted /\ ~last.full
  /\ \E p \in last.seen_paths : p \notin SeqToSet(last.files)
  /\ \E p \in SeqToSet(last.files) : pre.file_state[p] = None

(* C22: resolve_root returns the first valid candidate of: the requested  *)
(* path, the LEDGER_REPO_ROOT path, the nearest directory holding a       *)
(* repository marker among the 10 directories searched upward from the   *)
(* directory of app.py, the parent of that directory; an invalid          *)
(* candidate is skipped, and what is returned is an existing directory.   *)
ValidCandidate(c) ==
  /\ c # None
  /\ c[1] \in ChainDirs(last.depth) \cup {"/req", "/env"}

MarkerLevels ==
  {k \in 0..(AutoDetectLevels - 1) : k <= last.depth /\ Chain(last.depth - k) \in last.markers}

NearestMarker ==
  Chain(last.depth - (CHOOSE k \in MarkerLevels : \A j \in MarkerLevels : k <= j))

C22_ResolveRootPriority ==
  (last.op = "resolve_root" /\ last.done) =>
    /\ last.root_path \in ChainDirs(last.depth) \cup {"/req", "/env"}
    /\ last.root_path =
         IF ValidCandidate(last.requested_root) THEN last.requested_root[1]
         ELSE IF ValidCandidate(last.env_root) THEN last.env_root[1]
         ELSE IF MarkerLevels # {} THEN NearestMarker
         ELSE Chain(IF last.depth = 0 THEN 0 ELSE last.depth - 1)

(* Both the requested and the environment root were invalid and two      *)
(* directories within the searched levels, both above the directory of   *)
(* app.py, hold a marker.                                                 *)
C22_Witness ==
  /\ last.op = "resolve_root" /\ last.done
  /\ last.requested_root # None /\ ~ValidCandidate(last.requested_root)
  /\ last.env_root # None /\ ~ValidCandidate(last.env_root)
  /\ Cardinality(MarkerLevels) = 2
  /\ last.root_path # Chain(last.depth)
  /\ last.root_path \in last.markers

(* C23: a file that cannot be read as UTF-8 text gives no hit and does    *)
(* not fail the scan: the scan commits, and its hits and what it does to  *)
(* notes, evidence and note events are those of the same scan over the    *)
(* tree without the unreadable files.                                     *)
UnreadablePaths == {p \in Paths : last.tree[p] # None /\ ~last.tree[p][1].readable}

ReadableTree == [p \in Paths |-> IF p \in UnreadablePaths THEN None ELSE last.tree[p]]

ScanOfReadable == scan_tx(pre, RepoRoot, ReadableTree, last.full, last.now)

C23_UnreadableFileSkipped ==
  (last.op = "scan" /\ UnreadablePaths # {}) =>
    /\ last.code = 200
    /\ \A i \in DOMAIN last.hits : last.hits[i].path \notin UnreadablePaths
    /\ last.hits = ScanOfReadable.hits
    /\ db.notes = ScanOfReadable.db.notes
    /\ db.evidence = ScanOfReadable.db.evidence
    /\ db.note_events = ScanOfReadable.db.note_events
    /\ \A p \in UnreadablePaths : p \in last.seen_paths

(* A scan read an unreadable file that holds tags next to a readable one  *)
(* whose tag made a note.                                                 *)
C23_Witness ==
  /\ ScanCommitted
  /\ \E p \in UnreadablePaths : p \in SeqToSet(last.files) /\ last.tree[p][1].body # << >>
  /\ last.hits # << >>
  /\ Len(db.notes) > Len(pre.notes)

(* C24: in MODE=prod a POST /scan changes the ledger only when it carries *)
(* a session signed with the server's secret whose role is admin or dev;  *)
(* every other request is answered 401 or 403 and changes nothing; and    *)
(* no application started in prod has the local no-auth JSON exception    *)
(* enabled.                                                               *)
SignedSession ==
  /\ last.request.session # None
  /\ last.request.session[1].sig =
       <<last.settings.session_secret, last.request.session[1].body>>
  /\ last.request.session[1].body.role \in {"admin", "dev"}

C24_ProdScanNeedsSession ==
  (last.op = "scan" /\ last.settings.mode = "prod") =>
    /\ (db # pre) => SignedSession
    /\ ~SignedSession => (last.code \in {401, 403} /\ db = pre)
    /\ ~last.settings.allow_local_json_noauth

(* In prod a scan from a signed dev session changed the ledger.           *)
C24_Witness ==
  /\ last.op = "scan" /\ last.settings.mode = "prod"
  /\ SignedSession
  /\ last.code = 200
  /\ db.notes # pre.notes

(* C25: in MODE=local with the no-auth exception enabled, a POST /scan    *)
(* without a session is accepted only when it comes from localhost and    *)
(* its Accept names application/json; otherwise it is answered 401 or     *)
(* 403 and changes nothing (auto-login does not authorise /scan).         *)
FromLocalhost ==
  /\ last.request.client_host \in {"127.0.0.1", "::1"}
  /\ last.request.xff \in {"", "127.0.0.1", "::1", "localhost"}

C25_LocalNoAuthJsonOnly ==
  ( /\ last.op = "scan"
    /\ last.settings.mode = "local"
    /\ last.settings.allow_local_json_noauth
    /\ last.request.session = None ) =>
    /\ (last.code = 200) =>
         (FromLocalhost /\ "application/json" \in last.request.accept)
    /\ ~(FromLocalhost /\ "application/json" \in last.request.accept) =>
         (last.code \in {401, 403} /\ db = pre)

(* C26: a POST /scan or PATCH that carries the CSRF cookie and no equal   *)
(* X-CSRF-Token header is answered 403 and changes nothing; with an       *)
(* equal header, or without the cookie, it is not refused for CSRF.       *)
CsrfCookiePresent == last.request.csrf_cookie # None

CsrfHeaderMatches == last.request.csrf_header = last.request.csrf_cookie

C26_CsrfWhenCookiePresent ==
  (last.op \in {"scan", "patch"}) =>
    /\ (CsrfCookiePresent /\ ~CsrfHeaderMatches) => (last.code = 403 /\ db = pre)
    /\ (~CsrfCookiePresent \/ CsrfHeaderMatches) => last.code # 403

(* C26, as the code has it: such a PATCH is answered 403; such a POST     *)
(* /scan is answered 403 unless the gate in front of /scan has already    *)
(* answered 401 because it carries no signed session; either way nothing  *)
(* changes.                                                               *)
C26_CsrfBehindScanGate ==
  (last.op \in {"scan", "patch"}) =>
    /\ (CsrfCookiePresent /\ ~CsrfHeaderMatches) =>
         /\ db = pre
         /\ (last.op = "patch") => last.code = 403
         /\ (last.op = "scan") =>
              \/ last.code = 403
              \/ last.code = 401 /\ ~SignedSession
    /\ (~CsrfCookiePresent \/ CsrfHeaderMatches) => last.code # 403

(* An edit of an existing note, sent with a signed session, was refused  *)
(* for an X-CSRF-Token that differs from the cookie.                      *)
C26_Witness ==
  /\ last.op = "patch" /\ last.code = 403
  /\ CsrfCookiePresent /\ last.request.csrf_header = Some("u")
  /\ SignedSession
  /\ select_note(db, last.slug) # None

(* C27: startup loads the settings, then passes the contract gate, then   *)
(* initialises the database: started in MODE=prod without                 *)
(* P1_CONTRACT_VERIFIED=1 it fails and init_db does not run, so the       *)
(* database file is as it was when the process started (none, if there    *)
(* was none); once the settings are loaded, with the flag set or in      *)
(* MODE=local it does not fail before init_db.                            *)
EnvMode == strip_lower(getenv_or(last.env, "MODE", "local"))

EnvVerified == last.env.P1_CONTRACT_VERIFIED = Some("1")

C27_StartupOrder ==
  (last.op = "lifespan") =>
    /\ (EnvMode = "prod" /\ ~EnvVerified) =>
         /\ last.pc \in {"init_settings", "check_p1_contract_gate", "failed"}
         /\ db = pre
    /\ (last.pc \in {"init_db", "serving"}) =>
         /\ last.settings # NoSettings
         /\ last.settings.mode = EnvMode
    /\ (last.pc = "serving") => db # None
    /\ (last.pc = "failed" /\ last.settings # NoSettings) =>
         (EnvMode = "prod" /\ ~EnvVerified)

(* The first start, in prod with valid settings and without the flag,    *)
(* failed at the gate and there is no database file.                      *)
C27_Witness ==
  /\ last.op = "lifespan" /\ last.pc = "failed" /\ last.starts = 1
  /\ last.settings # NoSettings /\ last.settings.mode = "prod"
  /\ ~EnvVerified
  /\ db = None

(* C28: every scan that has started finishes, by committing or by         *)
(* failing with its transaction rolled back, whatever other scans run     *)
(* at the same time and hold the write lock.                              *)
C28_ScansFinish ==
  \A p \in Threads : (conn[p].pc # "idle") ~> (conn[p].pc = "idle")

(* Two scans are running; one holds the write lock and the other is at    *)
(* a statement that needs it.                                             *)
C28_Witness ==
  \E p \in Threads : \E q \in Threads \ {p} :
    /\ lock = q
    /\ conn[q].pc # "idle"
    /\ conn[p].pc \in {"file_w", "upsert_w", "evidence_w", "force_w", "stale_w",
                       "orphan_w", "finish"}

(* C29: the sampling table never holds more than 1000 entries; a report   *)
(* that finds 1000 entries drops the 500 logged longest ago before it     *)
(* records its own key; every report is answered 204 and leaves the       *)
(* ledger as it was.                                                      *)
DroppedOthers ==
  {e \in SeqToSet(last.before) \ SeqToSet(_CSP_REPORT_SAMPLING) : e.key # last.key}
KeptOthers == {e \in SeqToSet(_CSP_REPORT_SAMPLING) : e.key # last.key}
Thinned == last.op = "csp_report" /\ last.sampled /\ Len(last.before) >= 1000

C29_SamplingTableBounded ==
  /\ Len(_CSP_REPORT_SAMPLING) <= 1000
  /\ last.op = "csp_report" => (last.code = 204 /\ db = pre)
  /\ Thinned =>
       /\ last.key \in Keys(_CSP_REPORT_SAMPLING)
       /\ KeptOthers \subseteq SeqToSet(last.before)
       /\ Cardinality(DroppedOthers) \in {499, 500}
       /\ Cardinality(KeptOthers) \in {499, 500}
       /\ Cardinality(DroppedOthers) + Cardinality(KeptOthers) \in {999, 1000}
       /\ \A d \in {e.at : e \in DroppedOthers} :
            \A k \in {e.at : e \in KeptOthers} : d <= k

(* A report found 1000 entries, among them one logged again since, and    *)
(* recorded a key that was not in the table.                              *)
C29_Witness ==
  /\ Thinned
  /\ last.key \notin Keys(last.before)
  /\ Len(_CSP_REPORT_SAMPLING) = 501
  /\ \E e \in SeqToSet(last.before) : e.at > time_time(0) /\ e.key # last.key

(* C30: a PATCH answered 200 appends one status_change event, from the    *)
(* stored status to the requested one, exactly when a status is requested *)
(* that differs from the stored one; one priority_change event exactly    *)
(* when a priority is requested that differs from the stored one; one     *)
(* comment event exactly when a comment is supplied; nothing else; and    *)
(* the note then has the requested status and priority.                   *)
Appended == SubSeq(db.note_events, Len(pre.note_events) + 1, Len(db.note_events))

AppendedOf(event_type) == SelectSeq(Appended, LAMBDA e : e.event_type = event_type)

StatusDiffers ==
  "status" \in last.req.fields_set /\ last.req.status # Some(Patched.status)

PriorityDiffers ==
  "priority" \in last.req.fields_set /\ last.req.priority # Patched.priority

CommentSupplied == "comment" \in last.req.fields_set /\ last.req.comment # None

C30_PatchEvents ==
  (last.op = "patch" /\ last.code = 200) =>
    /\ SubSeq(db.note_events, 1, Len(pre.note_events)) = pre.note_events
    /\ Len(AppendedOf("status_change")) = (IF StatusDiffers THEN 1 ELSE 0)
    /\ \A i \in DOMAIN AppendedOf("status_change") :
         /\ AppendedOf("status_change")[i].old_value = Some(Patched.status)
         /\ AppendedOf("status_change")[i].new_value = last.req.status
    /\ Len(AppendedOf("priority_change")) = (IF PriorityDiffers THEN 1 ELSE 0)
    /\ Len(AppendedOf("comment")) = (IF CommentSupplied THEN 1 ELSE 0)
    /\ Len(Appended) = Len(AppendedOf("status_change"))
                         + Len(AppendedOf("priority_change"))
                         + Len(AppendedOf("comment"))
    /\ \A i \in DOMAIN Appended : Appended[i].note_id = Patched.id
    /\ "status" \in last.req.fields_set =>
         Some(select_note(db, last.slug)[1].status) = last.req.status
    /\ "priority" \in last.req.fields_set =>
         select_note(db, last.slug)[1].priority = last.req.priority
    /\ "status" \notin last.req.fields_set =>
         select_note(db, last.slug)[1].status = Patched.status
    /\ "priority" \notin last.req.fields_set =>
         select_note(db, last.slug)[1].priority = Patched.priority

(* A PATCH with a new status, a new priority and a comment appended three *)
(* events.                                                                *)
C30_Witness ==
  /\ last.op = "patch" /\ last.code = 200
  /\ StatusDiffers /\ PriorityDiffers /\ CommentSupplied
  /\ Len(Appended) = 3

(* C31: a PATCH that carries a field is rejected with 404 when its slug   *)
(* is unknown and with 400 when it has a null status, a status outside    *)
(* the allowed values, a null comment or a priority outside 1..3 (either  *)
(* answer when both apply); a PATCH answered 400 or 404 has such a reason *)
(* and changes nothing in the ledger, whatever other field it carries; a  *)
(* null priority on its own is no reason to reject, and clears the        *)
(* priority.                                                              *)
UnknownSlug == select_note(pre, last.slug) = None

BadField ==
  \/ "status" \in last.req.fields_set /\ last.req.status = None
  \/ /\ "status" \in last.req.fields_set /\ last.req.status # None
     /\ last.req.status[1] \notin {"open", "doing", "parked", "done", "stale"}
  \/ "comment" \in last.req.fields_set /\ last.req.comment = None
  \/ /\ "priority" \in last.req.fields_set /\ last.req.priority # None
     /\ last.req.priority[1] \notin 1..3

RejectedUnchanged ==
  /\ last.code = 404 => UnknownSlug
  /\ last.code = 400 => BadField
  /\ last.code \in {400, 404} => db = pre

NullPriorityClears ==
  (/\ ~UnknownSlug /\ ~BadField
   /\ "priority" \in last.req.fields_set /\ last.req.priority = None) =>
    /\ last.code \in {200, 204}
    /\ select_note(db, last.slug)[1].priority = None

C31_RejectedPatch ==
  last.op = "patch" =>
    /\ ((UnknownSlug /\ last.req.fields_set # {}) \/ BadField) => last.code \in {400, 404}
    /\ RejectedUnchanged
    /\ NullPriorityClears

(* A PATCH with a priority out of range and a valid status that differs   *)
(* from the note's was answered 400.                                      *)
C31_Witness ==
  /\ last.op = "patch" /\ last.code = 400
  /\ ~UnknownSlug
  /\ last.req.status = Some("done")
  /\ Patched.status # "done"
  /\ last.req.priority = Some(4)

(* C32: in prod a scan resolves the same root, gets the same answer and   *)
(* leaves the same ledger whatever the root field of its request is.      *)
C32_ProdIgnoresRequestedRoot ==
  (last.op = "scan" /\ last.mode = "prod") =>
    \A requested_root \in RequestedRoots :
      \E o \in {scan_outcome(pre, last.tree, last.mode, requested_root, last.env,
                             last.still, last.full, last.now)} :
        /\ o.code = last.code
        /\ o.db = db
        /\ last.code = 200 => o.root_path = last.resp.scanned_root
        /\ o.root_path = scan_root(last.mode, None, last.env)

(* A prod scan asked for the directory "other" and walked the repository, *)
(* creating notes.                                                        *)
C32_Witness ==
  /\ last.op = "scan" /\ last.mode = "prod" /\ last.code = 200
  /\ last.root = Some("other")
  /\ last.env = None
  /\ last.resp.scanned_root = RepoRoot
  /\ Len(db.notes) > Len(pre.notes)

(* C33: a full scan whose walk finds no eligible file commits like any    *)
(* other scan; it deletes no file_state row, and every note that was      *)
(* open, doing or parked is stale afterwards, stale_marked being their    *)
(* number.                                                                *)
EmptyFullScan == last.op = "scan" /\ last.full /\ last.tree = NoFiles

ActiveBefore == {i \in DOMAIN pre.notes : pre.notes[i].status \in ACTIVE_STATUSES}

C33_EmptyFullScan ==
  EmptyFullScan =>
    /\ last.code = 200
    /\ last.files = << >>
    /\ Len(db.scan_log) = Len(pre.scan_log) + 1
    /\ db.file_state = pre.file_state
    /\ last.resp.orphan_files_removed = 0
    /\ \A i \in ActiveBefore : db.notes[i].status = "stale"
    /\ last.resp.stale_marked = Cardinality(ActiveBefore)

(* A full scan of an empty tree found file_state rows of an earlier diff  *)
(* scan and a note that a PATCH had set to doing or parked.               *)
C33_Witness ==
  /\ EmptyFullScan
  /\ \E p \in Paths : pre.file_state[p] # None
  /\ \E i \in ActiveBefore : pre.notes[i].status \in {"doing", "parked"}
  /\ \E i \in DOMAIN pre.notes : pre.notes[i].status = "done"

(* C34: a committed full scan leaves every file_state row as it was or    *)
(* deletes it; a file_state row is inserted or updated only by a diff     *)
(* scan; and a diff scan reads every eligible file that has no            *)
(* file_state row, so also every file that only full scans have walked.   *)
C34_FullScanWritesNoFileState ==
  /\ (ScanCommitted /\ last.full) =>
       \A p \in Paths : db.file_state[p] \in {pre.file_state[p], None}
  /\ \A p \in Paths :
       (db.file_state[p] # None /\ db.file_state[p] # pre.file_state[p]) =>
         (ScanCommitted /\ ~last.full)
  /\ (ScanCommitted /\ ~last.full) =>
       \A p \in Paths :
         (last.tree[p] # None /\ pre.file_state[p] = None) => p \in SeqToSet(last.files)

(* A diff scan followed a full scan that had walked two files and         *)
(* created notes; no file had a file_state row and the diff scan read     *)
(* both.                                                                  *)
C34_Witness ==
  /\ ScanCommitted /\ ~last.full
  /\ Len(pre.scan_log) >= 1
  /\ pre.scan_log[Len(pre.scan_log)].full
  /\ pre.scan_log[Len(pre.scan_log)].files_scanned = 2
  /\ Len(pre.notes) > 0
  /\ \A p \in Paths : pre.file_state[p] = None
  /\ Len(last.files) = 2

(* C35: every evidence row that was in the table before a scan is in it   *)
(* afterwards, unchanged and at the same place; a scan only appends.      *)
C35_EvidenceKept ==
  last.op = "scan" =>
    /\ Len(pre.evidence) <= Len(db.evidence)
    /\ SubSeq(db.evidence, 1, Len(pre.evidence)) = pre.evidence

(* A full scan found the file of an evidence row gone, marked the row's   *)
(* note stale and kept the row.                                           *)
C35_Witness ==
  /\ ScanCommitted /\ last.full
  /\ \E i \in DOMAIN pre.evidence :
       /\ last.tree[pre.evidence[i].filepath] = None
       /\ \E n \in DOMAIN db.notes :
            /\ db.notes[n].id = pre.evidence[i].note_id
            /\ pre.notes[n].status # "stale"
            /\ db.notes[n].status = "stale"

(* C36: a scan leaves the priority of every note as it was, and leaves    *)
(* updated_at as it was for every note whose status it does not change.   *)
C36_ScanKeepsPriority ==
  last.op = "scan" =>
    /\ Len(pre.notes) <= Len(db.notes)
    /\ \A i \in DOMAIN pre.notes :
         /\ db.notes[i].id = pre.notes[i].id
         /\ db.notes[i].priority = pre.notes[i].priority
         /\ db.notes[i].updated_at # pre.notes[i].updated_at =>
              db.notes[i].status # pre.notes[i].status
         /\ db.notes[i].status = pre.notes[i].status => db.notes[i] = pre.notes[i]

(* A scan changed the status of a note that has a priority, a second      *)
(* after the priority was set.                                            *)
C36_Witness ==
  /\ ScanCommitted
  /\ \E i \in DOMAIN pre.notes :
       /\ pre.notes[i].priority # None
       /\ db.notes[i].status # pre.notes[i].status
       /\ db.notes[i].updated_at > pre.notes[i].updated_at

(* C37: with scans and edits served one after another from an empty      *)
(* ledger, the events of every note begin with created (new value open),  *)
(* every status_change event of the note has as old value the new value   *)
(* of the note's created or status_change event before it, and the last   *)
(* of these events has the note's status as new value.                    *)
StatusHistory(id) ==
  SelectSeq(db.note_events,
            LAMBDA e : e.note_id = id /\ e.event_type \in {"created", "status_change"})

C37_StatusChain ==
  \A i \in DOMAIN db.notes :
    \E h \in {StatusHistory(db.notes[i].id)} :
      /\ Len(h) >= 1
      /\ EventsOf(db.note_events, db.notes[i].id)[1].event_type = "created"
      /\ h[1].event_type = "created"
      /\ h[1].new_value = Some("open")
      /\ \A k \in 2..Len(h) :
           h[k].event_type = "status_change" => h[k].old_value = h[k - 1].new_value
      /\ h[Len(h)].new_value = Some(db.notes[i].status)

(* A note was created by a scan, set to doing or parked by a PATCH,       *)
(* completed or made stale by a later scan and changed again by the scan  *)
(* after that.                                                            *)
C37_Witness ==
  \E i \in DOMAIN db.notes :
    \E h \in {StatusHistory(db.notes[i].id)} :
      /\ Len(h) >= 4
      /\ h[2].new_value \in {Some("doing"), Some("parked")}

(* C38: a PATCH without a status field leaves the note's status as it is  *)
(* stored when the PATCH writes, whatever was committed since the PATCH   *)
(* read the note; and whenever the stored status of a note changes, a     *)
(* status_change event of that note with the new status is appended.      *)
C38_PatchKeepsStatus ==
  /\ (last.op = "patch" /\ "status" \notin last.req.fields_set) =>
       \A i \in DOMAIN pre.notes : db.notes[i].status = pre.notes[i].status
  /\ \A i \in DOMAIN pre.notes :
       db.notes[i].status # pre.notes[i].status =>
         \E k \in DOMAIN NewEvents :
           /\ NewEvents[k].note_id = pre.notes[i].id
           /\ NewEvents[k].event_type = "status_change"
           /\ NewEvents[k].new_value = Some(db.notes[i].status)

(* C39: whether the File Walker yields an entry found below the scan root *)
(* is decided by the entry alone, not by where the root lies: it is       *)
(* yielded exactly when it is a regular file, its extension is on the     *)
(* allow-list and none of its components relative to the root is an       *)
(* excluded directory name.                                               *)
C39_WalkerYield ==
  (last.op = "iter_source_files" /\ last.done) =>
    LET entry == last.root \o last.rel
    IN  (entry \in last.yielded) <=>
          /\ last.kind = "file"
          /\ suffix(last.rel) \in SCAN_EXTS
          /\ ~ \E exc \in EXCLUDE_DIRS : exc \in parts(last.rel)

====
